---- MODULE Spec2Model ----
(***************************************************************************)
(* Othello rules engine (src/js/game.js, class OthelloGame).               *)
(*                                                                         *)
(* The live game object is the record variable `game`, one field per       *)
(* field of OthelloGame.  `call` records the last public operation that    *)
(* was invoked on it and the value it returned.                            *)
(*                                                                         *)
(* Where several game objects exist at once (clone(), the search of        *)
(* OthelloAI) they live in `heap`: the objects, and by address the arrays  *)
(* the code mutates in place (the rows of a board, a move history).        *)
(* `ai` is the OthelloAI object and the position of its getMove call.      *)
(***************************************************************************)
EXTENDS Integers, Sequences, FiniteSets, TLC

VARIABLES game, call, heap, ai, app

vars == <<game, call, heap, ai, app>>

(* ------------------------------------------------------------------ *)
(* Program constants                                                    *)
(* ------------------------------------------------------------------ *)

BLACK == 1

WHITE == 2

EMPTY == 0

\* Side length of the board: Array(8) of Array(8), loops `< 8`.
SIZE == 8

\* JavaScript null, as held by `winner`.
NULL == -1

\* JavaScript null, as held by `lastMove`.
NoMove == [row |-> -1, col |-> -1]

Players == {BLACK, WHITE}

Idx == 0 .. (SIZE - 1)

Cell(r, c) == [row |-> r, col |-> c]

\* The eight direction vectors, in the order of the array literal.
directions ==
    << <<-1, -1>>, <<-1, 0>>, <<-1, 1>>,
       <<0, -1>>,             <<0, 1>>,
       <<1, -1>>,  <<1, 0>>,  <<1, 1>> >>

\* `player === BLACK ? WHITE : BLACK`
Opponent(player) == IF player = BLACK THEN WHITE ELSE BLACK

\* `r >= 0 && r < 8 && c >= 0 && c < 8`
InBounds(r, c) == r >= 0 /\ r < SIZE /\ c >= 0 /\ c < SIZE

(* ------------------------------------------------------------------ *)
(* Bounds of the model                                                  *)
(* ------------------------------------------------------------------ *)

\* How many cells of InputOrder the caller of makeMove may name.
NumInputCells == 14

\* The caller stops calling makeMove once this many moves have been played
\* since the last reset.
MaxMoves == 10

\* The same cap for the caller that only makes legal moves (PlaySpec), whose
\* states are examined cell by cell.
MaxPlayMoves == 9

\* How many cells of InputOrder the holder of clones may name, how many
\* clones it makes, and how many moves it plays on any one object.
NumCloneCells == 2

MaxClones == 2

MaxCloneMoves == 1

\* The depths the AI is constructed with: 1 .. MaxDepth.
MaxDepth == 3

\* The cells a caller passes to makeMove, most useful first.  The first
\* eleven hold a nine-move game that Black wins by wipe-out and a game in
\* which Black has to pass; the next three add a game that White wins.
InputOrder ==
    << Cell(2, 3), Cell(2, 2), Cell(2, 1), Cell(2, 4), Cell(2, 5),
       Cell(3, 5), Cell(4, 5), Cell(1, 1), Cell(0, 0), Cell(2, 0),
       Cell(0, 2), Cell(3, 2), Cell(5, 4), Cell(3, 6), Cell(2, 7),
       Cell(1, 6), Cell(6, 3), Cell(7, 7) >>

InputCells ==
    { InputOrder[i] : i \in 1 .. (IF NumInputCells < Len(InputOrder)
                                  THEN NumInputCells ELSE Len(InputOrder)) }

(* ------------------------------------------------------------------ *)
(* getScore                                                             *)
(* ------------------------------------------------------------------ *)

\* Number of cells of `board` holding `v`, by full scan.
Count(board, v) ==
    Cardinality({ rc \in Idx \X Idx : board[rc[1]][rc[2]] = v })

GetScore(board) == [black |-> Count(board, BLACK), white |-> Count(board, WHITE)]

(* ------------------------------------------------------------------ *)
(* isValidMove                                                          *)
(* ------------------------------------------------------------------ *)

\* The while loop of isValidMove: step over opponent discs from (r,c) and
\* give the cell the loop stops at.
RECURSIVE WalkEnd(_, _, _, _, _, _)
WalkEnd(board, r, c, dr, dc, opponent) ==
    IF InBounds(r, c) /\ board[r][c] = opponent
    THEN WalkEnd(board, r + dr, c + dc, dr, dc, opponent)
    ELSE <<r, c>>

\* One iteration of the for loop over the directions: does it return true?
DirectionValid(board, row, col, player, d) ==
    LET end == WalkEnd(board, row + d[1], col + d[2], d[1], d[2], Opponent(player))
        foundOpponent == end # <<row + d[1], col + d[2]>>
    IN  foundOpponent /\ InBounds(end[1], end[2]) /\ board[end[1]][end[2]] = player

IsValidMoveNoRunCheck(board, row, col, player) ==
    /\ board[row][col] = EMPTY
    /\ \E i \in 1 .. Len(directions) :
          LET d == directions[i]
              end == WalkEnd(board, row + d[1], col + d[2], d[1], d[2], Opponent(player))
          IN  InBounds(end[1], end[2]) /\ board[end[1]][end[2]] = player

IsValidMove(board, row, col, player) ==
    /\ board[row][col] = EMPTY
    /\ \E i \in 1 .. Len(directions) : DirectionValid(board, row, col, player, directions[i])

(* ------------------------------------------------------------------ *)
(* findValidMoves                                                       *)
(* ------------------------------------------------------------------ *)

\* The 64 cells in the order of the nested loops: row outer, col inner.
ScanOrder == [i \in 1 .. (SIZE * SIZE) |-> Cell((i - 1) \div SIZE, (i - 1) % SIZE)]

FindValidMovesColumnMajor(board, player) ==
    SelectSeq([i \in 1 .. (SIZE * SIZE) |-> Cell((i - 1) % SIZE, (i - 1) \div SIZE)],
              LAMBDA m : IsValidMove(board, m.row, m.col, player))

FindValidMoves(board, player) ==
    SelectSeq(ScanOrder, LAMBDA m : IsValidMove(board, m.row, m.col, player))

(* ------------------------------------------------------------------ *)
(* getFlippedDiscs                                                      *)
(* ------------------------------------------------------------------ *)

\* The while loop of getFlippedDiscs: the opponent cells pushed on `line`.
RECURSIVE Line(_, _, _, _, _, _)
Line(board, r, c, dr, dc, opponent) ==
    IF InBounds(r, c) /\ board[r][c] = opponent
    THEN <<Cell(r, c)>> \o Line(board, r + dr, c + dc, dr, dc, opponent)
    ELSE <<>>

\* What one direction adds to `flipped`.
DirectionFlips(board, row, col, player, d) ==
    LET line == Line(board, row + d[1], col + d[2], d[1], d[2], Opponent(player))
        r == row + d[1] * (Len(line) + 1)
        c == col + d[2] * (Len(line) + 1)
    IN  IF Len(line) > 0 /\ InBounds(r, c) /\ board[r][c] = player
        THEN line
        ELSE <<>>

RECURSIVE FlipsFrom(_, _, _, _, _)
FlipsFrom(board, row, col, player, i) ==
    IF i > Len(directions)
    THEN <<>>
    ELSE DirectionFlips(board, row, col, player, directions[i])
            \o FlipsFrom(board, row, col, player, i + 1)

GetFlippedDiscsUnterminated(board, row, col, player) ==
    LET RECURSIVE From(_)
        From(i) ==
            IF i > Len(directions)
            THEN <<>>
            ELSE Line(board, row + directions[i][1], col + directions[i][2],
                      directions[i][1], directions[i][2], Opponent(player))
                    \o From(i + 1)
    IN  From(1)

GetFlippedDiscsOrthogonal(board, row, col, player) ==
    DirectionFlips(board, row, col, player, directions[2])
        \o DirectionFlips(board, row, col, player, directions[4])
        \o DirectionFlips(board, row, col, player, directions[5])
        \o DirectionFlips(board, row, col, player, directions[7])

GetFlippedDiscs(board, row, col, player) == FlipsFrom(board, row, col, player, 1)

(* ------------------------------------------------------------------ *)
(* init / reset                                                         *)
(* ------------------------------------------------------------------ *)

\* `Array(8).fill(null).map(() => Array(8).fill(EMPTY))`
EmptyBoard == [r \in Idx |-> [c \in Idx |-> EMPTY]]

\* The four assignments of the starting position.
StartBoard ==
    [EmptyBoard EXCEPT ![3][3] = WHITE, ![3][4] = BLACK,
                       ![4][3] = BLACK, ![4][4] = WHITE]

\* updateValidMoves() at the end of init(): Black's moves on the start board.
StartMoves == FindValidMoves(StartBoard, BLACK)

InitGameKeepsOutcome(g) ==
    [board        |-> StartBoard,
     currentPlayer |-> BLACK,
     gameOver     |-> g.gameOver,
     winner       |-> g.winner,
     lastMove     |-> NoMove,
     flippedDiscs |-> <<>>,
     validMoves   |-> StartMoves,
     moveHistory  |-> <<>>]

\* init(): every field is assigned, so the result does not depend on the
\* object `g` it is called on; updateValidMoves() runs last.
InitGame(g) ==
    [board        |-> StartBoard,
     currentPlayer |-> BLACK,
     gameOver     |-> FALSE,
     winner       |-> NULL,
     lastMove     |-> NoMove,
     flippedDiscs |-> <<>>,
     validMoves   |-> StartMoves,
     moveHistory  |-> <<>>]

\* The fields as the constructor sets them before it calls init().
Constructed ==
    [board        |-> <<>>,
     currentPlayer |-> BLACK,
     gameOver     |-> FALSE,
     winner       |-> NULL,
     lastMove     |-> NoMove,
     flippedDiscs |-> <<>>,
     validMoves   |-> <<>>,
     moveHistory  |-> <<>>]

\* new OthelloGame()
NewGame == InitGame(Constructed)

(* ------------------------------------------------------------------ *)
(* makeMove                                                             *)
(* ------------------------------------------------------------------ *)

ApplyFlipsNone(board, flipped, player) == board

RECURSIVE ApplyFlipsIncrements(_, _, _)
ApplyFlipsIncrements(board, flipped, player) ==
    IF flipped = <<>>
    THEN board
    ELSE ApplyFlipsIncrements([board EXCEPT ![Head(flipped).row][Head(flipped).col] = @ + 1],
                              Tail(flipped), player)

\* `for (const disc of flipped) this.board[disc.row][disc.col] = player`
RECURSIVE ApplyFlips(_, _, _)
ApplyFlips(board, flipped, player) ==
    IF flipped = <<>>
    THEN board
    ELSE ApplyFlips([board EXCEPT ![Head(flipped).row][Head(flipped).col] = player],
                    Tail(flipped), player)

DetermineWinnerFewerDiscs(g) ==
    LET score == GetScore(g.board)
    IN  IF score.black < score.white THEN [g EXCEPT !.winner = BLACK]
        ELSE IF score.white < score.black THEN [g EXCEPT !.winner = WHITE]
        ELSE [g EXCEPT !.winner = NULL]

DetermineWinner(g) ==
    LET score == GetScore(g.board)
    IN  IF score.black > score.white THEN [g EXCEPT !.winner = BLACK]
        ELSE IF score.white > score.black THEN [g EXCEPT !.winner = WHITE]
        ELSE [g EXCEPT !.winner = NULL]

SwitchPlayerMoverFirst(g) ==
    LET opponent == Opponent(g.currentPlayer)
        currentMoves == FindValidMoves(g.board, g.currentPlayer)
    IN  IF Len(currentMoves) > 0
        THEN [g EXCEPT !.validMoves = currentMoves]
        ELSE LET opponentMoves == FindValidMoves(g.board, opponent)
             IN  IF Len(opponentMoves) > 0
                 THEN [g EXCEPT !.currentPlayer = opponent, !.validMoves = opponentMoves]
                 ELSE DetermineWinner([g EXCEPT !.gameOver = TRUE])

SwitchPlayerExposesPass(g) ==
    LET opponent == Opponent(g.currentPlayer)
        opponentMoves == FindValidMoves(g.board, opponent)
    IN  IF Len(opponentMoves) > 0 \/ Len(FindValidMoves(g.board, g.currentPlayer)) > 0
        THEN [g EXCEPT !.currentPlayer = opponent, !.validMoves = opponentMoves]
        ELSE DetermineWinner([g EXCEPT !.gameOver = TRUE])

SwitchPlayerEndsOnPass(g) ==
    LET opponent == Opponent(g.currentPlayer)
        opponentMoves == FindValidMoves(g.board, opponent)
    IN  IF Len(opponentMoves) > 0
        THEN [g EXCEPT !.currentPlayer = opponent, !.validMoves = opponentMoves]
        ELSE DetermineWinner([g EXCEPT !.gameOver = TRUE])

\* The "Switch player" part of makeMove, on the board after the flips.
SwitchPlayer(g) ==
    LET opponent == Opponent(g.currentPlayer)
        opponentMoves == FindValidMoves(g.board, opponent)
    IN  IF Len(opponentMoves) > 0
        THEN [g EXCEPT !.currentPlayer = opponent, !.validMoves = opponentMoves]
        ELSE LET currentMoves == FindValidMoves(g.board, g.currentPlayer)
             IN  IF Len(currentMoves) > 0
                 THEN [g EXCEPT !.validMoves = currentMoves]
                 ELSE DetermineWinner([g EXCEPT !.gameOver = TRUE])

PlaceAndFlipWithoutDisc(g, row, col) ==
    LET player  == g.currentPlayer
        flipped == GetFlippedDiscs(g.board, row, col, player)
    IN  [g EXCEPT !.board = ApplyFlips(g.board, flipped, player),
                  !.lastMove = Cell(row, col),
                  !.flippedDiscs = flipped,
                  !.moveHistory = Append(@, [row |-> row, col |-> col,
                                             player |-> player, flipped |-> flipped])]

PlaceAndFlipLogsNoFlips(g, row, col) ==
    LET player  == g.currentPlayer
        flipped == GetFlippedDiscs(g.board, row, col, player)
        placed  == [g.board EXCEPT ![row][col] = player]
    IN  [g EXCEPT !.board = ApplyFlips(placed, flipped, player),
                  !.lastMove = Cell(row, col),
                  !.flippedDiscs = flipped,
                  !.moveHistory = Append(@, [row |-> row, col |-> col,
                                             player |-> player, flipped |-> <<>>])]

PlaceAndFlipKeepsLastFlips(g, row, col) ==
    LET player  == g.currentPlayer
        flipped == GetFlippedDiscs(g.board, row, col, player)
        placed  == [g.board EXCEPT ![row][col] = player]
    IN  [g EXCEPT !.board = ApplyFlips(placed, flipped, player),
                  !.lastMove = Cell(row, col),
                  !.flippedDiscs = @ \o flipped,
                  !.moveHistory = Append(@, [row |-> row, col |-> col,
                                             player |-> player, flipped |-> flipped])]

\* Place the disc, flip, record lastMove, flippedDiscs and the history entry.
PlaceAndFlip(g, row, col) ==
    LET player  == g.currentPlayer
        flipped == GetFlippedDiscs(g.board, row, col, player)
        placed  == [g.board EXCEPT ![row][col] = player]
    IN  [g EXCEPT !.board = ApplyFlips(placed, flipped, player),
                  !.lastMove = Cell(row, col),
                  !.flippedDiscs = flipped,
                  !.moveHistory = Append(@, [row |-> row, col |-> col,
                                             player |-> player, flipped |-> flipped])]

MakeMoveResultPlacesFirst(g, row, col) ==
    IF g.gameOver
    THEN [game |-> g, ret |-> FALSE]
    ELSE IF ~IsValidMove(g.board, row, col, g.currentPlayer)
    THEN [game |-> [g EXCEPT !.lastMove = Cell(row, col)], ret |-> FALSE]
    ELSE [game |-> SwitchPlayer(PlaceAndFlip(g, row, col)), ret |-> TRUE]

\* makeMove(row, col) on the game `g`: the game afterwards and the value returned.
MakeMoveResult(g, row, col) ==
    IF g.gameOver
    THEN [game |-> g, ret |-> FALSE]
    ELSE IF ~IsValidMove(g.board, row, col, g.currentPlayer)
    THEN [game |-> g, ret |-> FALSE]
    ELSE [game |-> SwitchPlayer(PlaceAndFlip(g, row, col)), ret |-> TRUE]

(* ------------------------------------------------------------------ *)
(* clone                                                                *)
(* ------------------------------------------------------------------ *)

CloneFieldsDropsOutcome(g) ==
    [NewGame EXCEPT !.board = g.board,
                    !.currentPlayer = g.currentPlayer,
                    !.validMoves = g.validMoves]

\* The fields of g.clone(): a new OthelloGame() with the five copied fields
\* assigned over it.
CloneFields(g) ==
    [NewGame EXCEPT !.board = g.board,
                    !.currentPlayer = g.currentPlayer,
                    !.gameOver = g.gameOver,
                    !.winner = g.winner,
                    !.validMoves = g.validMoves]

(* ------------------------------------------------------------------ *)
(* OthelloAI.evaluate                                                   *)
(* ------------------------------------------------------------------ *)

\* this.positionWeights, row by row.
positionWeights ==
    << << 100, -20, 10,  5,  5, 10, -20, 100 >>,
       << -20, -50, -2, -2, -2, -2, -50, -20 >>,
       <<  10,  -2,  1,  1,  1,  1,  -2,  10 >>,
       <<   5,  -2,  1,  0,  0,  1,  -2,   5 >>,
       <<   5,  -2,  1,  0,  0,  1,  -2,   5 >>,
       <<  10,  -2,  1,  1,  1,  1,  -2,  10 >>,
       << -20, -50, -2, -2, -2, -2, -50, -20 >>,
       << 100, -20, 10,  5,  5, 10, -20, 100 >> >>

\* The score returned for a finished game that aiPlayer has won.
WinScore == 10000

\* `totalDiscs > 50 ? 10 : 1`
LateGameDiscs == 50

LateDiscWeight == 10

MobilityWeight == 5

CornerBonus == 50

EdgeBonus == 2

corners == << <<0, 0>>, <<0, 7>>, <<7, 0>>, <<7, 7>> >>

\* The four lists of evaluateEdges: top, bottom, left, right.
edges ==
    << [i \in 1 .. SIZE |-> <<0, i - 1>>],
       [i \in 1 .. SIZE |-> <<7, i - 1>>],
       [i \in 1 .. SIZE |-> <<i - 1, 0>>],
       [i \in 1 .. SIZE |-> <<i - 1, 7>>] >>

SignedOwnDiscsOnly(v, w, aiPlayer, humanPlayer) ==
    IF v = aiPlayer THEN w ELSE 0

\* `if (board[row][col] === aiPlayer) +w; else if (... === humanPlayer) -w`
Signed(v, w, aiPlayer, humanPlayer) ==
    IF v = aiPlayer THEN w ELSE IF v = humanPlayer THEN 0 - w ELSE 0

\* Term 2: the nested loops over the board, from cell number i on.
RECURSIVE PositionTerm(_, _, _, _)
PositionTerm(board, aiPlayer, humanPlayer, i) ==
    IF i > SIZE * SIZE
    THEN 0
    ELSE LET row == (i - 1) \div SIZE
             col == (i - 1) % SIZE
         IN  Signed(board[row][col], positionWeights[row + 1][col + 1],
                    aiPlayer, humanPlayer)
               + PositionTerm(board, aiPlayer, humanPlayer, i + 1)

\* The loop over a list of cells that adds or subtracts w for each.
RECURSIVE ListTerm(_, _, _, _, _, _)
ListTerm(board, cells, w, aiPlayer, humanPlayer, i) ==
    IF i > Len(cells)
    THEN 0
    ELSE Signed(board[cells[i][1]][cells[i][2]], w, aiPlayer, humanPlayer)
           + ListTerm(board, cells, w, aiPlayer, humanPlayer, i + 1)

EvaluateEdgesCornersOnce(board, aiPlayer, humanPlayer) ==
    ListTerm(board, edges[1], EdgeBonus, aiPlayer, humanPlayer, 1)
      + ListTerm(board, edges[2], EdgeBonus, aiPlayer, humanPlayer, 1)
      + ListTerm(board, SubSeq(edges[3], 2, SIZE - 1), EdgeBonus, aiPlayer, humanPlayer, 1)
      + ListTerm(board, SubSeq(edges[4], 2, SIZE - 1), EdgeBonus, aiPlayer, humanPlayer, 1)

EvaluateEdges(board, aiPlayer, humanPlayer) ==
    ListTerm(board, edges[1], EdgeBonus, aiPlayer, humanPlayer, 1)
      + ListTerm(board, edges[2], EdgeBonus, aiPlayer, humanPlayer, 1)
      + ListTerm(board, edges[3], EdgeBonus, aiPlayer, humanPlayer, 1)
      + ListTerm(board, edges[4], EdgeBonus, aiPlayer, humanPlayer, 1)

HeuristicDiscsDominate(g, aiPlayer) ==
    LET humanPlayer == IF aiPlayer = WHITE THEN BLACK ELSE WHITE
        score       == GetScore(g.board)
        totalDiscs  == score.black + score.white
        discWeight  == IF totalDiscs > LateGameDiscs THEN WinScore ELSE 1
        aiDiscs     == IF aiPlayer = WHITE THEN score.white ELSE score.black
        humanDiscs  == IF aiPlayer = WHITE THEN score.black ELSE score.white
        aiMoves     == Len(FindValidMoves(g.board, aiPlayer))
        humanMoves  == Len(FindValidMoves(g.board, humanPlayer))
    IN  (aiDiscs - humanDiscs) * discWeight
          + PositionTerm(g.board, aiPlayer, humanPlayer, 1)
          + (aiMoves - humanMoves) * MobilityWeight
          + ListTerm(g.board, corners, CornerBonus, aiPlayer, humanPlayer, 1)
          + EvaluateEdges(g.board, aiPlayer, humanPlayer)

\* The five terms of evaluate on an unfinished game.
Heuristic(g, aiPlayer) ==
    LET humanPlayer == IF aiPlayer = WHITE THEN BLACK ELSE WHITE
        score       == GetScore(g.board)
        totalDiscs  == score.black + score.white
        discWeight  == IF totalDiscs > LateGameDiscs THEN LateDiscWeight ELSE 1
        aiDiscs     == IF aiPlayer = WHITE THEN score.white ELSE score.black
        humanDiscs  == IF aiPlayer = WHITE THEN score.black ELSE score.white
        aiMoves     == Len(FindValidMoves(g.board, aiPlayer))
        humanMoves  == Len(FindValidMoves(g.board, humanPlayer))
    IN  (aiDiscs - humanDiscs) * discWeight
          + PositionTerm(g.board, aiPlayer, humanPlayer, 1)
          + (aiMoves - humanMoves) * MobilityWeight
          + ListTerm(g.board, corners, CornerBonus, aiPlayer, humanPlayer, 1)
          + EvaluateEdges(g.board, aiPlayer, humanPlayer)

EvaluateIgnoresGameOver(g, aiPlayer) == Heuristic(g, aiPlayer)

\* evaluate(game, aiPlayer)
Evaluate(g, aiPlayer) ==
    LET humanPlayer == IF aiPlayer = WHITE THEN BLACK ELSE WHITE
    IN  IF g.gameOver
        THEN IF g.winner = aiPlayer THEN WinScore
             ELSE IF g.winner = humanPlayer THEN 0 - WinScore
             ELSE 0
        ELSE Heuristic(g, aiPlayer)

(* ------------------------------------------------------------------ *)
(* Game objects on the heap                                             *)
(*                                                                      *)
(* heap.objs maps an object to its fields; `board` holds the addresses *)
(* of its eight row arrays and `moveHistory` the address of its history*)
(* array, the two kinds of array that the code writes in place.        *)
(* heap.rows and heap.logs give the contents at each address.          *)
(* ------------------------------------------------------------------ *)

EmptyHeap == [objs |-> <<>>, rows |-> <<>>, logs |-> <<>>]

\* The first address at or after `a` that is not in use.
RECURSIVE FirstFree(_, _)
FirstFree(used, a) == IF a \in used THEN FirstFree(used, a + 1) ELSE a

\* n addresses at or after `a` that are not in use: what creating n arrays
\* gives.
RECURSIVE Alloc(_, _, _)
Alloc(used, n, a) ==
    IF n = 0
    THEN <<>>
    ELSE LET f == FirstFree(used, a)
         IN  <<f>> \o Alloc(used \cup {f}, n - 1, f + 1)

\* The addresses that objects other than `id` refer to.  An address is only
\* a name: arrays created for `id` in an assignment that drops arrays of
\* `id` may take over their names, but never the name of an array that
\* another object still refers to.
RowsOfOthers(h, id) ==
    UNION { { h.objs[i].board[r] : r \in Idx } : i \in DOMAIN h.objs \ {id} }

LogsOfOthers(h, id) ==
    { h.objs[i].moveHistory : i \in DOMAIN h.objs \ {id} }

\* Eight new row arrays for object `id`, as a board.
NewRows(h, id) ==
    LET addrs == Alloc(RowsOfOthers(h, id), SIZE, id * SIZE)
    IN  [r \in Idx |-> addrs[r + 1]]

\* The object `id` as the rules engine sees it: its arrays read through.
Deref(h, id) ==
    LET o == h.objs[id]
    IN  [o EXCEPT !.board = [r \in Idx |-> h.rows[o.board[r]]],
                  !.moveHistory = h.logs[o.moveHistory]]

\* Object `id` gets the fields of g; the contents of g.board are written to
\* the rows at the addresses `board`, those of g.moveHistory to the array
\* at `log`.  Arrays that no object refers to afterwards are gone.
Put(h, id, board, log, g) ==
    LET own      == { board[r] : r \in Idx }
        liveRows == RowsOfOthers(h, id) \cup own
        liveLogs == LogsOfOthers(h, id) \cup {log}
    IN  [objs |-> [i \in DOMAIN h.objs \cup {id} |->
                     IF i = id
                     THEN [g EXCEPT !.board = board, !.moveHistory = log]
                     ELSE h.objs[i]],
         rows |-> [a \in liveRows |->
                     IF a \in own
                     THEN g.board[CHOOSE r \in Idx : board[r] = a]
                     ELSE h.rows[a]],
         logs |-> [a \in liveLogs |->
                     IF a = log THEN g.moveHistory ELSE h.logs[a]]]

\* init() on object `id`, whose fields before the call are g: a new board
\* of eight new rows and a new history array replace the old ones.
HeapInit(h, id, g) ==
    Put(h, id, NewRows(h, id), FirstFree(LogsOfOthers(h, id), id), InitGame(g))

\* new OthelloGame(), stored as object `id`.
HeapNew(h, id) == HeapInit(h, id, Constructed)

\* reset() on object `id`.
HeapReset(h, id) == HeapInit(h, id, Deref(h, id))

HeapCloneSharesRows(h, src, id) ==
    LET h1 == HeapNew(h, id)
    IN  Put(h1, id, h.objs[src].board, h1.objs[id].moveHistory,
            CloneFields(Deref(h, src)))

\* src.clone(), stored as object `id`: a new game, then a new outer array of
\* eight new rows with the contents of the rows of src.
HeapClone(h, src, id) ==
    LET h1 == HeapNew(h, id)
    IN  Put(h1, id, NewRows(h1, id), h1.objs[id].moveHistory,
            CloneFields(Deref(h, src)))

\* makeMove(row, col) on object `id`: the cells and the history entry are
\* written into the object's own arrays; a refused call writes nothing.
HeapMakeMove(h, id, row, col) ==
    LET o   == h.objs[id]
        res == MakeMoveResult(Deref(h, id), row, col)
    IN  IF res.ret
        THEN [heap |-> Put(h, id, o.board, o.moveHistory, res.game), ret |-> TRUE]
        ELSE [heap |-> h, ret |-> FALSE]

\* The id of the live game, the first object created.
LiveGame == 0

\* Object `id` goes out of scope, and with it the arrays only it refers to.
HeapDrop(h, id) ==
    LET ids      == DOMAIN h.objs \ {id}
        liveRows == RowsOfOthers(h, id)
        liveLogs == LogsOfOthers(h, id)
    IN  [objs |-> [i \in ids |-> h.objs[i]],
         rows |-> [a \in liveRows |-> h.rows[a]],
         logs |-> [a \in liveLogs |-> h.logs[a]]]

(* ------------------------------------------------------------------ *)
(* OthelloAI.getMove and OthelloAI.minimax                              *)
(*                                                                      *)
(* `ai` holds the fields of the OthelloAI object (depth,                *)
(* nodesEvaluated), the place the running getMove call has reached     *)
(* (pc), the locals of getMove (validMoves, next for the position of   *)
(* the for loop, bestMove, bestScore), one frame for every minimax     *)
(* call that has not returned (stack), and the value the last call     *)
(* returned (result).                                                  *)
(* ------------------------------------------------------------------ *)

\* JavaScript Infinity: above every score evaluate can return.
Infinity == 1000000

\* Math.max, Math.min
MaxOf(a, b) == IF a >= b THEN a ELSE b

MinOf(a, b) == IF a <= b THEN a ELSE b

\* new OthelloAI(d), with no call of getMove running.
AIObject(d) ==
    [depth |-> d, nodesEvaluated |-> 0, pc |-> "idle",
     validMoves |-> <<>>, next |-> 0, bestMove |-> NoMove, bestScore |-> 0,
     stack |-> <<>>, result |-> NoMove]

\* No OthelloAI object has been constructed.
NoAI == [AIObject(0) EXCEPT !.pc = "none"]

GetMoveEntryNoShortcut(a, validMoves) ==
    IF Len(validMoves) = 0
    THEN [AIObject(a.depth) EXCEPT !.pc = "done", !.result = NoMove]
    ELSE [AIObject(a.depth) EXCEPT !.pc = "delay", !.validMoves = validMoves]

\* getMove down to the await: nodesEvaluated is cleared, and the call
\* returns null or the only move at once, or else waits for the timer.
GetMoveEntry(a, validMoves) ==
    IF Len(validMoves) = 0
    THEN [AIObject(a.depth) EXCEPT !.pc = "done", !.result = NoMove]
    ELSE IF Len(validMoves) = 1
    THEN [AIObject(a.depth) EXCEPT !.pc = "done", !.result = validMoves[1]]
    ELSE [AIObject(a.depth) EXCEPT !.pc = "delay", !.validMoves = validMoves]

LoopStartKeepsScore(a) ==
    [a EXCEPT !.pc = "loop", !.bestMove = a.validMoves[1], !.next = 1]

\* After the await: the locals of the for loop of getMove.
LoopStart(a) ==
    [a EXCEPT !.pc = "loop", !.bestMove = a.validMoves[1],
              !.bestScore = 0 - Infinity, !.next = 1]

RootAcceptKeepsLast(a, score) ==
    IF score >= a.bestScore
    THEN [a EXCEPT !.bestScore = score, !.bestMove = a.validMoves[a.next], !.next = @ + 1]
    ELSE [a EXCEPT !.next = @ + 1]

\* `if (score > bestScore) { bestScore = score; bestMove = move; }` and the
\* step of the for loop to the next move.
RootAccept(a, score) ==
    IF score > a.bestScore
    THEN [a EXCEPT !.bestScore = score, !.bestMove = a.validMoves[a.next], !.next = @ + 1]
    ELSE [a EXCEPT !.next = @ + 1]

MinimaxEntryMoverView(g, id, depth, alpha, beta, isMaximizing, aiPlayer) ==
    LET leaf == depth = 0 \/ g.gameOver \/ Len(g.validMoves) = 0
    IN  [game |-> id, depth |-> depth, alpha |-> alpha, beta |-> beta,
         isMaximizing |-> isMaximizing, aiPlayer |-> aiPlayer,
         validMoves |-> IF leaf THEN <<>> ELSE g.validMoves,
         next |-> 1, leaf |-> leaf, cut |-> FALSE,
         best |-> IF leaf THEN Evaluate(g, g.currentPlayer)
                  ELSE IF isMaximizing THEN 0 - Infinity ELSE Infinity]

MinimaxEntryNoDepthStop(g, id, depth, alpha, beta, isMaximizing, aiPlayer) ==
    LET leaf == g.gameOver \/ Len(g.validMoves) = 0
    IN  [game |-> id, depth |-> depth, alpha |-> alpha, beta |-> beta,
         isMaximizing |-> isMaximizing, aiPlayer |-> aiPlayer,
         validMoves |-> IF leaf THEN <<>> ELSE g.validMoves,
         next |-> 1, leaf |-> leaf, cut |-> FALSE,
         best |-> IF leaf THEN Evaluate(g, aiPlayer)
                  ELSE IF isMaximizing THEN 0 - Infinity ELSE Infinity]

\* The frame of a minimax call on the game g (object `id`) when it has
\* passed its two early returns: a call that returned there is a leaf and
\* `best` is the value it returns; otherwise `best` is maxScore or minScore
\* before the loop.
MinimaxEntry(g, id, depth, alpha, beta, isMaximizing, aiPlayer) ==
    LET leaf == depth = 0 \/ g.gameOver \/ Len(g.validMoves) = 0
    IN  [game |-> id, depth |-> depth, alpha |-> alpha, beta |-> beta,
         isMaximizing |-> isMaximizing, aiPlayer |-> aiPlayer,
         validMoves |-> IF leaf THEN <<>> ELSE g.validMoves,
         next |-> 1, leaf |-> leaf, cut |-> FALSE,
         best |-> IF leaf THEN Evaluate(g, aiPlayer)
                  ELSE IF isMaximizing THEN 0 - Infinity ELSE Infinity]

FrameAcceptCutsAtOnce(f, score) ==
    IF f.isMaximizing
    THEN LET alpha == MaxOf(f.alpha, score)
         IN  [f EXCEPT !.best = MaxOf(f.best, score), !.alpha = alpha,
                       !.cut = (alpha <= f.beta), !.next = @ + 1]
    ELSE LET beta == MinOf(f.beta, score)
         IN  [f EXCEPT !.best = MinOf(f.best, score), !.beta = beta,
                       !.cut = (f.alpha <= beta), !.next = @ + 1]

\* The body of the loop of minimax after the recursive call has returned
\* `score`: maxScore or minScore, alpha or beta, and `if (beta <= alpha) break`.
FrameAccept(f, score) ==
    IF f.isMaximizing
    THEN LET alpha == MaxOf(f.alpha, score)
         IN  [f EXCEPT !.best = MaxOf(f.best, score), !.alpha = alpha,
                       !.cut = (f.beta <= alpha), !.next = @ + 1]
    ELSE LET beta == MinOf(f.beta, score)
         IN  [f EXCEPT !.best = MinOf(f.best, score), !.beta = beta,
                       !.cut = (beta <= f.alpha), !.next = @ + 1]

\* The minimax call of frame f is about to return f.best.
FrameDone(f) == f.leaf \/ f.cut \/ f.next > Len(f.validMoves)

(* ------------------------------------------------------------------ *)
(* The state machine: a caller of the engine's public operations        *)
(* ------------------------------------------------------------------ *)

\* The controller's own fields after its constructor, and the calls of its
\* async methods that are suspended at an await on a timer: `at` says at
\* which await, `validMoves` is the array getMove read before its await.
NewApp == [isPlayerTurn |-> TRUE, isProcessing |-> FALSE, flows |-> <<>>]

Init ==
    /\ game = NewGame
    /\ call = [op |-> "new", ret |-> FALSE]
    /\ heap = HeapNew(EmptyHeap, LiveGame)
    /\ ai = NoAI
    /\ app = NewApp

\* game.makeMove(cell.row, cell.col)
CallMakeMove(cell) ==
    /\ \E res \in {MakeMoveResult(game, cell.row, cell.col)} :
           /\ game' = res.game
           /\ call' = [op |-> "makeMove", ret |-> res.ret]
    /\ UNCHANGED <<heap, ai, app>>

\* The same call by a caller that stops after MaxMoves moves.
MakeMove(cell) ==
    /\ Len(game.moveHistory) < MaxMoves
    /\ CallMakeMove(cell)

\* game.reset()
Reset ==
    /\ game' = InitGame(game)
    /\ call' = [op |-> "reset", ret |-> FALSE]
    /\ UNCHANGED <<heap, ai, app>>

Next ==
    \/ \E cell \in InputCells : MakeMove(cell)
    \/ Reset

Spec == Init /\ [][Next]_vars

\* A caller that, like the controller's click handler, looks the cell up in
\* the legal moves before it calls makeMove.
PlayLegalMove(cell) ==
    /\ Len(game.moveHistory) < MaxPlayMoves
    /\ ~game.gameOver
    /\ IsValidMove(game.board, cell.row, cell.col, game.currentPlayer)
    /\ MakeMove(cell)

PlayNext ==
    \/ \E cell \in InputCells : PlayLegalMove(cell)
    \/ Reset

PlaySpec == Init /\ [][PlayNext]_vars

(* ------------------------------------------------------------------ *)
(* A caller that replays recorded games, move by move                   *)
(* ------------------------------------------------------------------ *)

\* Three complete games: Black wipes White out with the ninth move; the
\* board fills up and the game ends 32 to 32; a player has to pass and White
\* wins 48 to 15 with a cell left empty.
Records ==
    << << <<2, 3>>, <<2, 2>>, <<2, 1>>, <<2, 4>>, <<2, 5>>, <<3, 5>>, <<4, 5>>, <<1, 1>>,
          <<0, 0>> >>,
       <<
          <<3, 2>>, <<2, 4>>, <<1, 5>>, <<2, 2>>, <<4, 2>>, <<4, 1>>, <<5, 4>>, <<2, 3>>,
          <<3, 1>>, <<5, 5>>, <<2, 1>>, <<5, 3>>, <<6, 4>>, <<6, 3>>, <<4, 6>>, <<5, 6>>,
          <<5, 0>>, <<5, 1>>, <<6, 6>>, <<1, 1>>, <<6, 0>>, <<2, 5>>, <<7, 3>>, <<7, 5>>,
          <<3, 5>>, <<7, 2>>, <<6, 5>>, <<2, 6>>, <<1, 2>>, <<7, 6>>, <<4, 5>>, <<1, 3>>,
          <<0, 3>>, <<5, 7>>, <<7, 7>>, <<0, 4>>, <<1, 0>>, <<5, 2>>, <<0, 1>>, <<6, 1>>,
          <<1, 7>>, <<0, 0>>, <<3, 6>>, <<0, 2>>, <<0, 5>>, <<6, 7>>, <<4, 7>>, <<7, 4>>,
          <<4, 0>>, <<0, 6>>, <<7, 1>>, <<2, 0>>, <<3, 0>>, <<1, 6>>, <<6, 2>>, <<7, 0>>,
          <<3, 7>>, <<2, 7>>, <<1, 4>>, <<0, 7>> >>,
       <<
          <<3, 2>>, <<4, 2>>, <<5, 3>>, <<2, 2>>, <<4, 1>>, <<3, 5>>, <<2, 4>>, <<6, 2>>,
          <<3, 6>>, <<4, 0>>, <<1, 1>>, <<2, 5>>, <<5, 4>>, <<6, 5>>, <<6, 3>>, <<3, 7>>,
          <<2, 6>>, <<1, 7>>, <<7, 6>>, <<1, 3>>, <<2, 3>>, <<2, 1>>, <<5, 1>>, <<6, 0>>,
          <<5, 5>>, <<1, 2>>, <<5, 2>>, <<4, 5>>, <<0, 2>>, <<7, 3>>, <<7, 4>>, <<0, 1>>,
          <<2, 0>>, <<7, 5>>, <<5, 0>>, <<6, 4>>, <<4, 6>>, <<4, 7>>, <<0, 3>>, <<0, 4>>,
          <<7, 2>>, <<3, 1>>, <<6, 6>>, <<7, 7>>, <<1, 5>>, <<6, 1>>, <<1, 0>>, <<1, 4>>,
          <<3, 0>>, <<0, 6>>, <<7, 1>>, <<7, 0>>, <<1, 6>>, <<0, 5>>, <<5, 7>>, <<2, 7>>,
          <<5, 6>>, <<6, 7>>, <<0, 0>> >> >>

\* The cells played so far in the game g.
Played(g) == [i \in 1 .. Len(g.moveHistory) |-> <<g.moveHistory[i].row, g.moveHistory[i].col>>]

\* The caller plays the next move of record k.
ReplayMove(k) ==
    LET n == Len(game.moveHistory)
    IN  /\ n < Len(Records[k])
        /\ Played(game) = SubSeq(Records[k], 1, n)
        /\ CallMakeMove(Cell(Records[k][n + 1][1], Records[k][n + 1][2]))

ReplayNext ==
    \/ \E k \in 1 .. Len(Records) : ReplayMove(k)
    \/ Reset

ReplaySpec == Init /\ [][ReplayNext]_vars

(* ------------------------------------------------------------------ *)
(* A caller that holds the live game and clones of it; `call` also      *)
(* records the object the operation was invoked on.                     *)
(* ------------------------------------------------------------------ *)

CloneCells ==
    { InputOrder[i] : i \in 1 .. (IF NumCloneCells < Len(InputOrder)
                                  THEN NumCloneCells ELSE Len(InputOrder)) }

\* c = src.clone()
CloneGame(src) ==
    /\ src \in DOMAIN heap.objs
    /\ Cardinality(DOMAIN heap.objs) <= MaxClones
    /\ heap' = HeapClone(heap, src, FirstFree(DOMAIN heap.objs, 0))
    /\ call' = [op |-> "clone", ret |-> FALSE, on |-> src]
    /\ UNCHANGED <<game, ai, app>>

\* obj.makeMove(cell.row, cell.col)
MakeMoveOn(id, cell) ==
    /\ id \in DOMAIN heap.objs
    /\ Len(heap.logs[heap.objs[id].moveHistory]) < MaxCloneMoves
    /\ \E res \in {HeapMakeMove(heap, id, cell.row, cell.col)} :
           /\ heap' = res.heap
           /\ call' = [op |-> "makeMove", ret |-> res.ret, on |-> id]
    /\ UNCHANGED <<game, ai, app>>

\* obj.reset()
ResetOn(id) ==
    /\ id \in DOMAIN heap.objs
    /\ heap' = HeapReset(heap, id)
    /\ call' = [op |-> "reset", ret |-> FALSE, on |-> id]
    /\ UNCHANGED <<game, ai, app>>

CloneNext ==
    \E id \in 0 .. MaxClones :
        \/ CloneGame(id)
        \/ \E cell \in CloneCells : MakeMoveOn(id, cell)
        \/ ResetOn(id)

CloneSpec == Init /\ [][CloneNext]_vars

(* ------------------------------------------------------------------ *)
(* A caller of getMove: it plays recorded games on the live game and,   *)
(* between moves, asks the AI for a move and awaits the answer.         *)
(* ------------------------------------------------------------------ *)

\* The games the caller of getMove plays: the nine-move game that Black
\* wins by wipe-out, seven moves after which White has a move, (0,2), that
\* leaves Black without a legal move, and five moves after which White has
\* one legal move.
AIRecords ==
    << << <<2, 3>>, <<2, 2>>, <<2, 1>>, <<2, 4>>, <<2, 5>>, <<3, 5>>, <<4, 5>>, <<1, 1>>,
          <<0, 0>> >>,
       << <<2, 3>>, <<2, 2>>, <<2, 1>>, <<1, 1>>, <<4, 5>>, <<2, 0>>, <<0, 0>> >>,
       << <<2, 3>>, <<4, 2>>, <<5, 1>>, <<2, 5>>, <<4, 5>> >> >>

\* The live game as the rules engine sees it.
Live == Deref(heap, LiveGame)

\* new OthelloAI(d)
NewAI(d) ==
    /\ ai.pc = "none"
    /\ ai' = AIObject(d)
    /\ UNCHANGED <<game, call, heap, app>>

\* The caller plays the next move of record k on the live game; what an
\* earlier getMove returned is dropped.
LiveMove(k) ==
    LET played == Played(Live)
        n      == Len(played)
    IN  /\ ai.pc \in {"idle", "done"}
        /\ n < Len(AIRecords[k])
        /\ played = SubSeq(AIRecords[k], 1, n)
        /\ \E res \in {HeapMakeMove(heap, LiveGame, AIRecords[k][n + 1][1],
                                    AIRecords[k][n + 1][2])} :
               /\ heap' = res.heap
               /\ call' = [op |-> "makeMove", ret |-> res.ret]
        /\ ai' = [ai EXCEPT !.pc = "idle", !.result = NoMove]
        /\ UNCHANGED <<game, app>>

\* ai.getMove(live game), down to the await.
GetMoveCall ==
    /\ ai.pc \in {"idle", "done"}
    /\ ai' = GetMoveEntry(ai, heap.objs[LiveGame].validMoves)
    /\ UNCHANGED <<game, call, heap, app>>

\* The timer of the await fires and the for loop of getMove begins.
TimerFires ==
    /\ ai.pc = "delay"
    /\ ai' = LoopStart(ai)
    /\ UNCHANGED <<game, call, heap, app>>

\* One pass through `game.clone(); gameCopy.makeMove(...); this.minimax(...)`
\* in getMove (no frame on the stack) or in the minimax call on top of the
\* stack, as far as the two early returns of the new minimax call.
Enter ==
    /\ ai.pc = "loop"
    /\ LET n      == Len(ai.stack)
           atRoot == n = 0
           top    == ai.stack[n]
           parent == IF atRoot THEN LiveGame ELSE top.game
           move   == IF atRoot THEN ai.validMoves[ai.next] ELSE top.validMoves[top.next]
           id     == FirstFree(DOMAIN heap.objs, 0)
       IN  /\ IF atRoot THEN ai.next <= Len(ai.validMoves) ELSE ~FrameDone(top)
           /\ \E h \in {HeapMakeMove(HeapClone(heap, parent, id), id, move.row, move.col).heap} :
                 /\ heap' = h
                 /\ ai' = [ai EXCEPT
                             !.nodesEvaluated = @ + 1,
                             !.stack = Append(@,
                                 IF atRoot
                                 THEN MinimaxEntry(Deref(h, id), id, ai.depth - 1,
                                                   0 - Infinity, Infinity, FALSE, WHITE)
                                 ELSE MinimaxEntry(Deref(h, id), id, top.depth - 1,
                                                   top.alpha, top.beta,
                                                   ~top.isMaximizing, top.aiPlayer))]
    /\ UNCHANGED <<game, call, app>>

\* The minimax call on top of the stack returns; its game copy goes out of
\* scope and the caller (minimax or getMove) takes the score.
Return ==
    /\ ai.pc = "loop"
    /\ ai.stack # <<>>
    /\ LET n   == Len(ai.stack)
           top == ai.stack[n]
       IN  /\ FrameDone(top)
           /\ heap' = HeapDrop(heap, top.game)
           /\ ai' = IF n = 1
                    THEN RootAccept([ai EXCEPT !.stack = <<>>], top.best)
                    ELSE [ai EXCEPT !.stack = Append(SubSeq(@, 1, n - 2),
                                                     FrameAccept(ai.stack[n - 1], top.best))]
    /\ UNCHANGED <<game, call, app>>

\* `return bestMove`
Finish ==
    /\ ai.pc = "loop"
    /\ ai.stack = <<>>
    /\ ai.next > Len(ai.validMoves)
    /\ ai' = [AIObject(ai.depth) EXCEPT !.nodesEvaluated = ai.nodesEvaluated,
                                        !.pc = "done", !.result = ai.bestMove]
    /\ UNCHANGED <<game, call, heap, app>>

AINext ==
    \/ \E d \in 1 .. MaxDepth : NewAI(d)
    \/ \E k \in 1 .. Len(AIRecords) : LiveMove(k)
    \/ GetMoveCall
    \/ TimerFires
    \/ Enter
    \/ Return
    \/ Finish

AISpec == Init /\ [][AINext]_vars

\* The same caller when it plays the last of the records only, the short
\* game: fewer positions to search, for claims that compare every search
\* with a second, more expensive one.
SearchNext ==
    \/ \E d \in 1 .. MaxDepth : NewAI(d)
    \/ LiveMove(Len(AIRecords))
    \/ GetMoveCall
    \/ TimerFires
    \/ Enter
    \/ Return
    \/ Finish

SearchSpec == Init /\ [][SearchNext]_vars

(* ------------------------------------------------------------------ *)
(* Vocabulary of the properties                                         *)
(* ------------------------------------------------------------------ *)

\* The step just taken was a makeMove that returned true.
MoveSucceeded == call'.op = "makeMove" /\ call'.ret

HasMove(board, player) == FindValidMoves(board, player) # <<>>

\* The lengths k such that the k cells after (row,col) in direction d all hold
\* the opponent's disc and the cell after them is on the board and holds
\* player's disc.  There is at most one such k, and none unless the cell next
\* to (row,col) holds an opponent disc.
SandwichLens(board, row, col, player, d) ==
    IF InBounds(row + d[1], col + d[2]) /\ board[row + d[1]][col + d[2]] = Opponent(player)
    THEN { k \in 1 .. (SIZE - 2) :
             /\ \A j \in 1 .. k :
                   /\ InBounds(row + j * d[1], col + j * d[2])
                   /\ board[row + j * d[1]][col + j * d[2]] = Opponent(player)
             /\ InBounds(row + (k + 1) * d[1], col + (k + 1) * d[2])
             /\ board[row + (k + 1) * d[1]][col + (k + 1) * d[2]] = player }
    ELSE {}

\* The cells of the terminated run in direction d, if there is one.
RunCells(board, row, col, player, d) ==
    UNION { { Cell(row + j * d[1], col + j * d[2]) : j \in 1 .. k } :
            k \in SandwichLens(board, row, col, player, d) }

Elems(seq) == { seq[i] : i \in 1 .. Len(seq) }

\* Position of a cell in row-major order.
RowMajor(m) == m.row * SIZE + m.col

(* ------------------------------------------------------------------ *)
(* C1                                                                   *)
(* ------------------------------------------------------------------ *)

\* C1: in every reachable state the cached validMoves equals
\* findValidMoves(currentPlayer) on the present board (so it is empty once
\* the game has ended).
C1_CacheIsFresh ==
    game.validMoves = FindValidMoves(game.board, game.currentPlayer)

(* ------------------------------------------------------------------ *)
(* C2                                                                   *)
(* ------------------------------------------------------------------ *)

\* C2: makeMove on a finished game, or on a cell that is not a legal move
\* for currentPlayer, returns false and leaves every field of the game as
\* it was.
C2_FailedMoveChangesNothing ==
    [][ \A cell \in InputCells :
          ( /\ \/ game.gameOver
               \/ ~IsValidMove(game.board, cell.row, cell.col, game.currentPlayer)
            /\ MakeMove(cell) )
          => (call'.ret = FALSE /\ game' = game) ]_vars

\* A makeMove has been refused on a finished game.
C2_RefusedOnFinishedGame ==
    call.op = "makeMove" /\ ~call.ret /\ game.gameOver

(* ------------------------------------------------------------------ *)
(* C3                                                                   *)
(* ------------------------------------------------------------------ *)

\* C3: after a successful makeMove by p with opponent q, currentPlayer is q
\* whenever q has a legal move on the new board (whether or not p has one);
\* if q has none and p has one, currentPlayer stays p and the game goes on.
C3_TurnAdvance ==
    [][ MoveSucceeded =>
          LET p == game.currentPlayer
              q == Opponent(p)
          IN  /\ HasMove(game'.board, q) => game'.currentPlayer = q
              /\ (~HasMove(game'.board, q) /\ HasMove(game'.board, p))
                    => (game'.currentPlayer = p /\ ~game'.gameOver) ]_vars

\* The last move left the opponent without a move: the mover is to move again.
C3_ForcedPass ==
    /\ call.op = "makeMove" /\ call.ret
    /\ ~game.gameOver
    /\ game.currentPlayer = game.moveHistory[Len(game.moveHistory)].player
    /\ ~HasMove(game.board, Opponent(game.currentPlayer))

(* ------------------------------------------------------------------ *)
(* C4                                                                   *)
(* ------------------------------------------------------------------ *)

\* C4: gameOver is true exactly in the states where neither Black nor White
\* has a legal move on the current board.
C4_GameOverIffNoMoves ==
    game.gameOver <=> (~HasMove(game.board, BLACK) /\ ~HasMove(game.board, WHITE))

\* A successful move has just ended the game.
C4_MoveEndedGame ==
    /\ call.op = "makeMove" /\ call.ret /\ game.gameOver
    /\ ~HasMove(game.board, BLACK) /\ ~HasMove(game.board, WHITE)

(* ------------------------------------------------------------------ *)
(* C5                                                                   *)
(* ------------------------------------------------------------------ *)

\* C5: on a finished game winner is the player with strictly more discs, or
\* null when the counts are equal; on an unfinished game winner is null.
C5_WinnerByCount ==
    LET score == GetScore(game.board)
    IN  IF game.gameOver
        THEN /\ score.black > score.white => game.winner = BLACK
             /\ score.white > score.black => game.winner = WHITE
             /\ score.black = score.white => game.winner = NULL
        ELSE game.winner = NULL

\* A finished game that White has won on discs.
C5_WhiteHasWon ==
    /\ game.gameOver
    /\ GetScore(game.board).white > GetScore(game.board).black
    /\ game.winner = WHITE

(* ------------------------------------------------------------------ *)
(* C6                                                                   *)
(* ------------------------------------------------------------------ *)

\* C6: a successful makeMove raises the mover's disc count by 1 + |flipped|,
\* lowers the opponent's by |flipped|, and flips at least one disc.
C6_DiscCounts ==
    [][ MoveSucceeded =>
          LET p == game.currentPlayer
              q == Opponent(p)
              n == Len(game'.flippedDiscs)
          IN  /\ Count(game'.board, p) = Count(game.board, p) + 1 + n
              /\ Count(game'.board, q) = Count(game.board, q) - n
              /\ n >= 1 ]_vars

\* A successful move that flipped several discs.
C6_FlippedSeveral ==
    call.op = "makeMove" /\ call.ret /\ Len(game.flippedDiscs) >= 2

(* ------------------------------------------------------------------ *)
(* C7                                                                   *)
(* ------------------------------------------------------------------ *)

\* C7: isValidMove(row,col,p) is true exactly when the cell is empty and in
\* some direction a run of one or more opponent discs next to the cell is
\* immediately followed by an on-board disc of p.
C7_ValidIffSandwich ==
    \A r \in Idx, c \in Idx, p \in Players :
        IsValidMove(game.board, r, c, p)
            <=> /\ game.board[r][c] = EMPTY
                /\ \E i \in 1 .. Len(directions) :
                      SandwichLens(game.board, r, c, p, directions[i]) # {}

\* After some move there is an empty cell that is no legal move for p although
\* a run of opponent discs starts next to it: the run reaches the board edge.
C7_RunReachesEdge ==
    /\ game.moveHistory # <<>>
    /\ \E r \in Idx, c \in Idx, p \in Players, i \in 1 .. Len(directions) :
          LET d   == directions[i]
              end == WalkEnd(game.board, r + d[1], c + d[2], d[1], d[2], Opponent(p))
          IN  /\ game.board[r][c] = EMPTY
              /\ end # <<r + d[1], c + d[2]>>
              /\ ~InBounds(end[1], end[2])
              /\ ~IsValidMove(game.board, r, c, p)

(* ------------------------------------------------------------------ *)
(* C8                                                                   *)
(* ------------------------------------------------------------------ *)

\* C8: getFlippedDiscs(row,col,p) holds exactly the cells of the terminated
\* runs of the eight directions, each cell once, and every cell in it holds
\* an opponent disc (so never (row,col), an empty cell or a disc of p).
C8_FlipsAreTheRuns ==
    \A r \in Idx, c \in Idx, p \in Players :
        LET flipped == GetFlippedDiscs(game.board, r, c, p)
            cells   == Elems(flipped)
        IN  /\ cells = UNION { RunCells(game.board, r, c, p, directions[i]) :
                               i \in 1 .. Len(directions) }
            /\ Cardinality(cells) = Len(flipped)
            /\ \A m \in cells :
                  /\ m # Cell(r, c)
                  /\ game.board[m.row][m.col] = Opponent(p)

\* The last move flipped discs in at least two directions, and next to some
\* cell there is a run of opponent discs that nothing terminates.
C8_TwoDirectionsFlipped ==
    /\ call.op = "makeMove" /\ call.ret
    /\ \E i, j \in 1 .. Len(directions) :
          /\ i # j
          /\ \E m \in Elems(game.flippedDiscs) :
                m = Cell(game.lastMove.row + directions[i][1],
                         game.lastMove.col + directions[i][2])
          /\ \E m \in Elems(game.flippedDiscs) :
                m = Cell(game.lastMove.row + directions[j][1],
                         game.lastMove.col + directions[j][2])
    /\ \E r \in Idx, c \in Idx, p \in Players, k \in 1 .. Len(directions) :
          LET d == directions[k]
          IN  /\ Line(game.board, r + d[1], c + d[2], d[1], d[2], Opponent(p)) # <<>>
              /\ DirectionFlips(game.board, r, c, p, d) = <<>>

(* ------------------------------------------------------------------ *)
(* C9                                                                   *)
(* ------------------------------------------------------------------ *)

\* C9: findValidMoves(p) lists exactly the cells for which isValidMove is
\* true, in strictly increasing row-major order (hence each once).
C9_FindValidMovesScan ==
    \A p \in Players :
        LET moves == FindValidMoves(game.board, p)
            cells == Elems(moves)
        IN  /\ \A r \in Idx, c \in Idx :
                  IsValidMove(game.board, r, c, p) <=> Cell(r, c) \in cells
            /\ \A i \in 1 .. Len(moves) :
                  /\ moves[i].row \in Idx
                  /\ moves[i].col \in Idx
            /\ \A i \in 1 .. (Len(moves) - 1) :
                  RowMajor(moves[i]) < RowMajor(moves[i + 1])

\* After some move, the player to move has legal moves in several rows, one
\* of them in a later row and an earlier column than another.
C9_MovesInSeveralRows ==
    /\ game.moveHistory # <<>>
    /\ \E i, j \in 1 .. Len(game.validMoves) :
          /\ game.validMoves[i].row < game.validMoves[j].row
          /\ game.validMoves[i].col > game.validMoves[j].col

(* ------------------------------------------------------------------ *)
(* C10                                                                  *)
(* ------------------------------------------------------------------ *)

\* The fixed start state, written out.
StartState ==
    [board        |-> [r \in 0 .. 7 |-> [c \in 0 .. 7 |->
                         IF <<r, c>> \in {<<3, 3>>, <<4, 4>>} THEN WHITE
                         ELSE IF <<r, c>> \in {<<3, 4>>, <<4, 3>>} THEN BLACK
                         ELSE EMPTY]],
     currentPlayer |-> BLACK,
     gameOver     |-> FALSE,
     winner       |-> NULL,
     lastMove     |-> NoMove,
     flippedDiscs |-> <<>>,
     validMoves   |-> << [row |-> 2, col |-> 3], [row |-> 3, col |-> 2],
                         [row |-> 4, col |-> 5], [row |-> 5, col |-> 4] >>,
     moveHistory  |-> <<>>]

\* C10: a newly constructed game, and the game right after reset() from any
\* state, is exactly the fixed start state.
C10_NewAndResetGiveStart ==
    /\ call.op \in {"new", "reset"} => game = StartState
    /\ [][call'.op = "reset" => game' = StartState]_vars

\* reset() has just been called.
C10_AfterReset ==
    call.op = "reset" /\ game = StartState

(* ------------------------------------------------------------------ *)
(* C11                                                                  *)
(* ------------------------------------------------------------------ *)

\* C11: from the starting position makeMove(2,3) by Black succeeds, flips
\* exactly the disc at (3,3) from White to Black, gives the score black 4,
\* white 1, and makes White the currentPlayer with a non-empty validMoves.
C11_OpeningMove ==
    [][ (game = StartState /\ MakeMove(Cell(2, 3)))
          => /\ call'.ret = TRUE
             /\ game.board[3][3] = WHITE
             /\ game'.flippedDiscs = << Cell(3, 3) >>
             /\ game'.board = [game.board EXCEPT ![2][3] = BLACK, ![3][3] = BLACK]
             /\ GetScore(game'.board) = [black |-> 4, white |-> 1]
             /\ game'.currentPlayer = WHITE
             /\ game'.validMoves # <<>> ]_vars

\* Black's first move of a game was (2,3).
C11_PlayedOpening ==
    /\ call.op = "makeMove" /\ call.ret
    /\ Len(game.moveHistory) = 1
    /\ game.lastMove = Cell(2, 3)
    /\ game.board[3][3] = BLACK

(* ------------------------------------------------------------------ *)
(* C12                                                                  *)
(* ------------------------------------------------------------------ *)

\* C12: a makeMove or reset on one game object leaves every field of every
\* other object as it was (board, currentPlayer, gameOver, winner,
\* validMoves, lastMove, flippedDiscs, moveHistory), whether the other
\* object is the source of a clone, a clone of it, or another clone of the
\* same source.
C12_ClonesAreIndependent ==
    [][ call'.op \in {"makeMove", "reset"} =>
          \A other \in DOMAIN heap.objs \ {call'.on} :
              Deref(heap', other) = Deref(heap, other) ]_vars

\* The live game and two clones hold three different boards, and the last
\* call was a successful makeMove.
C12_ThreeObjectsDiverged ==
    /\ DOMAIN heap.objs = {0, 1, 2}
    /\ call.op = "makeMove" /\ call.ret
    /\ Deref(heap, 0).board # Deref(heap, 1).board
    /\ Deref(heap, 0).board # Deref(heap, 2).board
    /\ Deref(heap, 1).board # Deref(heap, 2).board
    /\ Deref(heap, 1).moveHistory # <<>>

(* ------------------------------------------------------------------ *)
(* C13                                                                  *)
(* ------------------------------------------------------------------ *)

\* The five fields that clone() copies.
RuleFields(g) ==
    [board |-> g.board, currentPlayer |-> g.currentPlayer, gameOver |-> g.gameOver,
     winner |-> g.winner, validMoves |-> g.validMoves]

\* The clone of g is rule-equivalent to g.
CloneEquivalent(g) ==
    /\ RuleFields(CloneFields(g)) = RuleFields(g)
    /\ \A m \in InputCells :
          \A a \in {MakeMoveResult(g, m.row, m.col)},
             b \in {MakeMoveResult(CloneFields(g), m.row, m.col)} :
                /\ a.ret = b.ret
                /\ RuleFields(a.game) = RuleFields(b.game)

\* C13: in every reachable state the clone of the game has the same board,
\* currentPlayer, gameOver, winner and validMoves as the game, and makeMove
\* of any cell on the clone returns what it returns on the game and leaves
\* the same five fields.
C13_CloneRuleEquivalent ==
    /\ CloneEquivalent(game)
    /\ [][CloneEquivalent(game')]_vars

\* A game with moves behind it, so that its clone differs from it in
\* lastMove, flippedDiscs and moveHistory, and with a legal move ahead.
C13_CloneOfPlayedGame ==
    /\ Len(game.moveHistory) >= 2
    /\ CloneFields(game).moveHistory = <<>>
    /\ CloneFields(game) # game
    /\ \E m \in InputCells : MakeMoveResult(CloneFields(game), m.row, m.col).ret

(* ------------------------------------------------------------------ *)
(* C14, C15, C16: what the search of getMove returns                    *)
(* ------------------------------------------------------------------ *)

\* The game a clone of g is after makeMove(m) on it.
After(g, m) == MakeMoveResult(CloneFields(g), m.row, m.col).game

\* Full-width minimax without alpha and beta: the value of the node g and
\* the number of nodes of its tree.  Same move order, same leaf rule and
\* same labels as minimax.  FullLoop is its loop over the first i moves.
RECURSIVE FullMinimax(_, _, _, _), FullLoop(_, _, _, _, _)
FullMinimax(g, depth, isMaximizing, aiPlayer) ==
    IF depth = 0 \/ g.gameOver \/ Len(g.validMoves) = 0
    THEN [score |-> Evaluate(g, aiPlayer), nodes |-> 1]
    ELSE FullLoop(g, depth, isMaximizing, aiPlayer, Len(g.validMoves))

FullLoop(g, depth, isMaximizing, aiPlayer, i) ==
    IF i = 0
    THEN [score |-> IF isMaximizing THEN 0 - Infinity ELSE Infinity, nodes |-> 1]
    ELSE CHOOSE r \in
             { [score |-> IF isMaximizing THEN MaxOf(sofar.score, below.score)
                          ELSE MinOf(sofar.score, below.score),
                nodes |-> sofar.nodes + below.nodes] :
               sofar \in {FullLoop(g, depth, isMaximizing, aiPlayer, i - 1)},
               below \in {FullMinimax(After(g, g.validMoves[i]), depth - 1,
                                      ~isMaximizing, aiPlayer)} } : TRUE

\* The full-width search from the root g over the first i of `moves`: the
\* best score, the first move that has it, and the nodes visited.
RECURSIVE FullSearch(_, _, _, _)
FullSearch(g, moves, depth, i) ==
    IF i = 0
    THEN [bestScore |-> 0 - Infinity, bestMove |-> moves[1], nodes |-> 0]
    ELSE CHOOSE r \in
             { [bestScore |-> MaxOf(sofar.bestScore, below.score),
                bestMove |-> IF below.score > sofar.bestScore THEN moves[i]
                             ELSE sofar.bestMove,
                nodes |-> sofar.nodes + below.nodes] :
               sofar \in {FullSearch(g, moves, depth, i - 1)},
               below \in {FullMinimax(After(g, moves[i]), depth - 1, FALSE, WHITE)} } : TRUE

\* The for loop of getMove has ended and `return bestMove` is next.
LoopEnded == ai.pc = "loop" /\ ai.stack = <<>> /\ ai.next > Len(ai.validMoves)

\* C14: the move getMove has chosen and the score attached to it are those
\* of the full-width minimax without pruning over the same tree.
C14_PruningKeepsResult ==
    LoopEnded =>
        \E full \in {FullSearch(Live, ai.validMoves, ai.depth, Len(ai.validMoves))} :
            /\ ai.bestMove = full.bestMove
            /\ ai.bestScore = full.bestScore
            /\ ai.nodesEvaluated <= full.nodes

\* A finished search that has visited fewer nodes than the full-width
\* search: a cut-off has happened.
C14_SearchWithCutoff ==
    /\ LoopEnded
    /\ ai.depth >= 3
    /\ ai.nodesEvaluated < FullSearch(Live, ai.validMoves, ai.depth, Len(ai.validMoves)).nodes

\* C15: with depth 1, on a state with two or more legal moves and the AI's
\* colour (White) to move, getMove returns a legal move m for which
\* evaluate(state after m, WHITE) is greatest; every minimax call is a leaf
\* called by getMove itself, one for each legal move.
C15_DepthOneIsGreedy ==
    /\ ai.depth = 1 => \A i \in DOMAIN ai.stack : i = 1 /\ ai.stack[i].leaf
    /\ (/\ ai.depth = 1
        /\ ai.pc = "done"
        /\ Live.currentPlayer = WHITE
        /\ Len(FindValidMoves(Live.board, Live.currentPlayer)) >= 2) =>
           \E legal \in {FindValidMoves(Live.board, Live.currentPlayer)} :
               /\ \E i \in DOMAIN legal : ai.result = legal[i]
               /\ \E best \in {Evaluate(After(Live, ai.result), WHITE)} :
                      \A i \in DOMAIN legal : Evaluate(After(Live, legal[i]), WHITE) <= best
               /\ ai.nodesEvaluated = Len(legal)

\* A depth-1 getMove has returned for White, and not every legal move was as
\* good as the one it returned.
C15_GreedyChoiceMade ==
    /\ ai.depth = 1
    /\ ai.pc = "done"
    /\ Live.currentPlayer = WHITE
    /\ ai.result # NoMove
    /\ \E m \in InputCells :
           /\ IsValidMove(Live.board, m.row, m.col, WHITE)
           /\ Evaluate(After(Live, m), WHITE) < Evaluate(After(Live, ai.result), WHITE)

\* A minimax call made by getMove itself returns: the step on which getMove
\* compares its score with bestScore.
RootReturn == ai.pc = "loop" /\ Len(ai.stack) = 1 /\ ai'.pc = "loop" /\ ai'.stack = <<>>

\* The score of the j-th legal move at the root of a depth-1 search.
RootScore(j) == Evaluate(After(Live, ai.validMoves[j]), WHITE)

\* C16: getMove keeps the first move that attains the greatest root score: a
\* move replaces the retained one only when its score is greater than the
\* best so far, never when it is equal, and the retained move after the last
\* legal move is what getMove returns; with depth 1, where the root scores
\* are the values of evaluate, the retained move is the first of the greatest.
C16_FirstBestMoveKept ==
    /\ [][ /\ RootReturn =>
                IF ai.stack[1].best > ai.bestScore
                THEN ai'.bestMove = ai.validMoves[ai.next] /\ ai'.bestScore = ai.stack[1].best
                ELSE ai'.bestMove = ai.bestMove /\ ai'.bestScore = ai.bestScore
            /\ (LoopEnded /\ ai'.pc = "done") => ai'.result = ai.bestMove ]_vars
    /\ []((LoopEnded /\ ai.depth = 1) =>
              \E i \in DOMAIN ai.validMoves :
                  /\ ai.bestMove = ai.validMoves[i]
                  /\ \A j \in DOMAIN ai.validMoves :
                         /\ RootScore(j) <= RootScore(i)
                         /\ j < i => RootScore(j) < RootScore(i))

\* The loop of a depth-1 getMove has ended with the first legal move
\* retained although the last legal move has the same score.
C16_TieKeptFirstMove ==
    /\ LoopEnded
    /\ ai.depth = 1
    /\ ai.bestMove = ai.validMoves[1]
    /\ Evaluate(After(Live, ai.validMoves[Len(ai.validMoves)]), WHITE) = ai.bestScore

(* ------------------------------------------------------------------ *)
(* C17, C18: the early returns of getMove                               *)
(* ------------------------------------------------------------------ *)

\* The legal moves of the side to move on the live game, by the rules.
LiveLegalMoves == FindValidMoves(Live.board, Live.currentPlayer)

\* C17: when the state given to getMove has exactly one legal move for the
\* side to move, getMove returns that move at once: no timer, no minimax
\* call (nodesEvaluated is 0 after the call, no frame) and no clone (the
\* heap is as it was).
C17_SingleMoveShortcut ==
    [][ (GetMoveCall /\ Len(LiveLegalMoves) = 1) =>
            /\ ai'.pc = "done"
            /\ ai'.result = LiveLegalMoves[1]
            /\ ai'.nodesEvaluated = 0
            /\ ai'.stack = <<>>
            /\ heap' = heap ]_vars

\* getMove has returned the only legal move of the live game, and the live
\* game is the only game object there is.
C17_ReturnedOnlyMove ==
    /\ ai.pc = "done"
    /\ Len(LiveLegalMoves) = 1
    /\ ai.result = LiveLegalMoves[1]
    /\ DOMAIN heap.objs = {LiveGame}

\* C18: whenever getMove is called on a state in which the side to move has
\* no legal move (every finished game is one), it returns null and never a
\* cell.
C18_NoMoveOnNoLegalMove ==
    (ai.pc = "done" /\ LiveLegalMoves = <<>>) => ai.result = NoMove

(* ------------------------------------------------------------------ *)
(* C19                                                                  *)
(* ------------------------------------------------------------------ *)

\* C19: on a finished game evaluate(state, p) is +10000 if p is the winner,
\* -10000 if the opponent of p is, and 0 on a tie, whatever the board holds.
C19_TerminalScore ==
    game.gameOver =>
        \A p \in Players :
            Evaluate(game, p) = IF game.winner = p THEN 10000
                                ELSE IF game.winner = Opponent(p) THEN -10000
                                ELSE 0

\* A finished game that is a tie, on a board whose heuristic terms are not
\* zero for White.
C19_TieScoresZero ==
    /\ game.gameOver
    /\ game.winner = NULL
    /\ Evaluate(game, WHITE) = 0
    /\ Heuristic(game, WHITE) # 0

(* ------------------------------------------------------------------ *)
(* C20                                                                  *)
(* ------------------------------------------------------------------ *)

\* The cells of `board` that hold a disc of p.
DiscsOf(board, p) == { rc \in Idx \X Idx : board[rc[1]][rc[2]] = p }

\* The weight table is symmetric under the reflections of the board, so one
\* quadrant gives it all.
QuadrantWeights ==
    << << 100, -20, 10, 5 >>,
       << -20, -50, -2, -2 >>,
       <<  10,  -2,  1, 1 >>,
       <<   5,  -2,  1, 0 >> >>

TableWeight(rc) ==
    QuadrantWeights[1 + (IF rc[1] < 4 THEN rc[1] ELSE 7 - rc[1])]
                   [1 + (IF rc[2] < 4 THEN rc[2] ELSE 7 - rc[2])]

\* How many cells of the set S have table weight w.
WithWeight(S, w) == Cardinality({ rc \in S : TableWeight(rc) = w })

\* The sum of the table weights of the cells of S.
WeightSum(S) ==
    100 * WithWeight(S, 100) + 10 * WithWeight(S, 10) + 5 * WithWeight(S, 5)
      + WithWeight(S, 1) - 2 * WithWeight(S, -2)
      - 20 * WithWeight(S, -20) - 50 * WithWeight(S, -50)

\* Occupied cells of the four border lines, a corner counting for both of
\* the lines it lies on.
BorderCount(S) ==
    Cardinality({ rc \in S : rc[1] \in {0, 7} }) + Cardinality({ rc \in S : rc[2] \in {0, 7} })

CornerCount(S) == Cardinality({ rc \in S : rc[1] \in {0, 7} /\ rc[2] \in {0, 7} })

\* Legal moves of p, by looking at every cell.
MobilityOf(board, p) ==
    Cardinality({ rc \in Idx \X Idx : IsValidMove(board, rc[1], rc[2], p) })

\* The five terms as the claim states them.
FiveTerms(board, p) ==
    LET q == Opponent(p)
        P == DiscsOf(board, p)
        Q == DiscsOf(board, q)
        W == IF Cardinality(P) + Cardinality(Q) > 50 THEN 10 ELSE 1
    IN  (Cardinality(P) - Cardinality(Q)) * W
          + (WeightSum(P) - WeightSum(Q))
          + 5 * (MobilityOf(board, p) - MobilityOf(board, q))
          + 50 * (CornerCount(P) - CornerCount(Q))
          + 2 * (BorderCount(P) - BorderCount(Q))

\* C20: on an unfinished game evaluate(state, p) is the sum of the disc
\* difference times W (10 above 50 discs, else 1), the signed sum of the
\* position weights, 5 times the difference in legal moves, 50 per corner
\* and 2 per occupied cell of each border line, corners counted on both of
\* their lines.
C20_EvaluateIsSumOfTerms ==
    ~game.gameOver =>
        \A p \in Players : Evaluate(game, p) = FiveTerms(game.board, p)

\* An unfinished game with more than 50 discs on the board, both colours on
\* corners, and a different number of legal moves for the two players.
C20_LateGameWithCorners ==
    /\ ~game.gameOver
    /\ Count(game.board, BLACK) + Count(game.board, WHITE) > 50
    /\ CornerCount(DiscsOf(game.board, BLACK)) >= 1
    /\ CornerCount(DiscsOf(game.board, WHITE)) >= 1
    /\ MobilityOf(game.board, BLACK) # MobilityOf(game.board, WHITE)

(* ------------------------------------------------------------------ *)
(* C21                                                                  *)
(* ------------------------------------------------------------------ *)

\* A step of a getMove call: its entry, the timer, a minimax call, a return
\* of minimax, or the return of getMove.
SearchStep == ai.pc # "none" /\ ai'.pc \in {"delay", "loop", "done"}

\* C21: getMove, minimax and evaluate never change the live game: no step of
\* a getMove call changes any field of it or the contents of its board and
\* history arrays, so after the return it is as it was at the call.
C21_SearchLeavesLiveGame ==
    [][ SearchStep => Deref(heap', LiveGame) = Deref(heap, LiveGame) ]_vars

\* getMove has returned after a search that made moves on clones of a live
\* game with moves behind it, and only the live game is left.
C21_SearchedAndReturned ==
    /\ ai.pc = "done"
    /\ ai.nodesEvaluated >= 2
    /\ Len(Live.moveHistory) >= 1
    /\ Live.lastMove # NoMove
    /\ DOMAIN heap.objs = {LiveGame}

(* ------------------------------------------------------------------ *)
(* C22                                                                  *)
(* ------------------------------------------------------------------ *)

\* What getMove returns as a function of the five rule fields of a game and
\* of the depth, by the full-width search: no field of the AI object and no
\* other field of the game enters.
GetMoveOf(g, depth) ==
    IF Len(g.validMoves) = 0 THEN NoMove
    ELSE IF Len(g.validMoves) = 1 THEN g.validMoves[1]
    ELSE FullSearch(g, g.validMoves, depth, Len(g.validMoves)).bestMove

\* C22: getMove is a function of the game state (board, currentPlayer,
\* gameOver, winner, validMoves) and the depth only: what it returns is
\* GetMoveOf of these, and at its entry everything earlier calls left in the
\* AI object is overwritten, whenever the timer fires.
C22_GetMoveIsAFunction ==
    /\ []((ai.pc = "done") => ai.result = GetMoveOf(RuleFields(Live), ai.depth))
    /\ [][ GetMoveCall =>
               ai' = GetMoveEntry(AIObject(ai.depth), RuleFields(Live).validMoves) ]_vars

\* getMove has returned a move found by a search, not the first legal move,
\* on a live game whose other fields (lastMove, moveHistory) are not those
\* of a new game.
C22_ReturnedSearchedMove ==
    /\ ai.pc = "done"
    /\ ai.nodesEvaluated >= 2
    /\ ai.result # Live.validMoves[1]
    /\ Len(Live.moveHistory) >= 2

(* ------------------------------------------------------------------ *)
(* C24, C25                                                             *)
(* ------------------------------------------------------------------ *)

\* C24: the board is an 8x8 grid whose cells each hold one of Empty, Black,
\* White, so the three counts add up to 64, and currentPlayer is Black or
\* White.
C24_BoardAndPlayerWellFormed ==
    /\ DOMAIN game.board = Idx
    /\ \A r \in Idx :
          /\ DOMAIN game.board[r] = Idx
          /\ \A c \in Idx : game.board[r][c] \in {EMPTY, BLACK, WHITE}
    /\ Count(game.board, BLACK) + Count(game.board, WHITE) + Count(game.board, EMPTY) = 64
    /\ game.currentPlayer \in Players

\* A board after moves of both players, the last of which flipped discs,
\* with cells of all three kinds.
C24_BoardInPlay ==
    /\ Len(game.moveHistory) >= 4
    /\ game.flippedDiscs # <<>>
    /\ Count(game.board, BLACK) > 2
    /\ Count(game.board, WHITE) > 2
    /\ Count(game.board, EMPTY) > 0

\* C25: for every empty cell and each player, isValidMove is true if and
\* only if getFlippedDiscs is not empty.
C25_ValidIffFlips ==
    \A r \in Idx, c \in Idx, p \in Players :
        game.board[r][c] = EMPTY =>
            (IsValidMove(game.board, r, c, p) <=> GetFlippedDiscs(game.board, r, c, p) # <<>>)

\* A board with a legal move that flips along a diagonal only, and with an
\* empty cell next to a run of opponent discs that ends at the edge or at an
\* empty cell, so that the move is illegal and nothing is flipped.
C25_DiagonalAndOpenRun ==
    /\ \E r \in Idx, c \in Idx, p \in Players :
          /\ game.board[r][c] = EMPTY
          /\ IsValidMove(game.board, r, c, p)
          /\ GetFlippedDiscsOrthogonal(game.board, r, c, p) = <<>>
    /\ \E r \in Idx, c \in Idx, p \in Players :
          /\ game.board[r][c] = EMPTY
          /\ ~IsValidMove(game.board, r, c, p)
          /\ GetFlippedDiscsUnterminated(game.board, r, c, p) # <<>>

(* ------------------------------------------------------------------ *)
(* C29                                                                  *)
(* ------------------------------------------------------------------ *)

Abs(x) == IF x < 0 THEN 0 - x ELSE x

\* The sum of the absolute values of the entries of positionWeights.
RECURSIVE AbsWeights(_)
AbsWeights(i) ==
    IF i > SIZE * SIZE THEN 0
    ELSE Abs(positionWeights[((i - 1) \div SIZE) + 1][((i - 1) % SIZE) + 1]) + AbsWeights(i + 1)

\* The most the five terms of evaluate can add up to on any board: every
\* cell counted for one player in each term.
HeuristicBound ==
    LateDiscWeight * SIZE * SIZE
      + AbsWeights(1)
      + MobilityWeight * SIZE * SIZE
      + CornerBonus * Len(corners)
      + EdgeBonus * Len(edges) * SIZE

\* C29: on an unfinished game the absolute value of evaluate, for either
\* player, is below 10000: it is at most the sum of the greatest values of
\* the five terms, which is below 10000.
C29_HeuristicBelowWinScore ==
    ~game.gameOver =>
        \A p \in Players :
            /\ Abs(Evaluate(game, p)) <= HeuristicBound
            /\ HeuristicBound < 10000
            /\ Abs(Evaluate(game, p)) < 10000

\* An unfinished late game (more than 50 discs) in which evaluate is far
\* from zero for White.
C29_LargeHeuristic ==
    /\ ~game.gameOver
    /\ Count(game.board, BLACK) + Count(game.board, WHITE) > 50
    /\ Abs(Evaluate(game, WHITE)) > 300

(* ------------------------------------------------------------------ *)
(* C26, C27, C28: passes and sides in the search                        *)
(* ------------------------------------------------------------------ *)

\* The game of the i-th minimax call on the stack, and the game it was
\* cloned from: the live game or the game of the call below it.
NodeGame(i) == Deref(heap, ai.stack[i].game)

NodeParent(i) == IF i = 1 THEN Live ELSE NodeGame(i - 1)

\* The i-th call is on a position reached by a move after which the player
\* due to move has no legal move, and the game is not finished.
ForcedPassNode(i) ==
    /\ NodeGame(i).board # NodeParent(i).board
    /\ ~NodeGame(i).gameOver
    /\ FindValidMoves(NodeGame(i).board, Opponent(NodeParent(i).currentPlayer)) = <<>>

\* C26: a minimax call with remaining depth > 0 on a position of a forced
\* pass returns evaluate of that position and makes no further call.
C26_PassStopsSearch ==
    \A i \in DOMAIN ai.stack :
        (ai.stack[i].depth > 0 /\ ForcedPassNode(i)) =>
            /\ ai.stack[i].leaf
            /\ ai.stack[i].best = Evaluate(NodeGame(i), ai.stack[i].aiPlayer)
            /\ i = Len(ai.stack)

\* C27: in a search from a state with aiPlayer (White) to move, at every
\* node of an unfinished game isMaximizing is true exactly when the node's
\* currentPlayer is aiPlayer.
C27_MaximizingIffAIToMove ==
    (ai.pc = "loop" /\ Live.currentPlayer = WHITE) =>
        \A i \in DOMAIN ai.stack :
            ~NodeGame(i).gameOver =>
                (ai.stack[i].isMaximizing <=> NodeGame(i).currentPlayer = ai.stack[i].aiPlayer)

\* C28: getMove returns the move with the best search value for the player
\* to move, Black or White: with depth 1, the value of evaluate for that
\* player on the state after the move.
C28_BestForSideToMove ==
    (/\ ai.pc = "done"
     /\ ai.depth = 1
     /\ ~Live.gameOver
     /\ Len(LiveLegalMoves) >= 2) =>
        \A i \in DOMAIN LiveLegalMoves :
            Evaluate(After(Live, LiveLegalMoves[i]), Live.currentPlayer)
                <= Evaluate(After(Live, ai.result), Live.currentPlayer)

(* ------------------------------------------------------------------ *)
(* C30                                                                  *)
(* ------------------------------------------------------------------ *)

\* The moves of the getMove loop (level 0) or of the i-th nested minimax
\* call for which no minimax call has been made yet; 0 for a call that is
\* about to return or has not been made.
Unentered(a, i) ==
    LET inner == IF i < Len(a.stack) THEN 1 ELSE 0
    IN  IF i = 0 THEN Len(a.validMoves) - a.next + 1 - inner
        ELSE IF i > Len(a.stack) \/ FrameDone(a.stack[i]) THEN 0
        ELSE Len(a.stack[i].validMoves) - a.stack[i].next + 1 - inner

\* The work a running search has left: the moves not entered yet, level by
\* level from getMove down, and then the number of calls still to return.
Work(a) == [i \in 1 .. a.depth + 2 |->
               IF i = a.depth + 2 THEN Len(a.stack) ELSE Unentered(a, i - 1)]

\* v comes before w in the lexicographic order of tuples of one length.
LexLess(v, w) ==
    \E k \in DOMAIN v :
        /\ v[k] < w[k]
        /\ \A j \in 1 .. k - 1 : v[j] = w[j]

\* C30: for every depth d >= 1 the nesting of minimax calls never exceeds d
\* (the i-th nested call has remaining depth d - i, never negative), and the
\* search terminates: its work left is a tuple of d + 2 natural numbers that
\* every step of the search makes smaller in the lexicographic order, and
\* the search is left only by the return of getMove.
C30_SearchTerminatesWithinDepth ==
    /\ [](/\ Len(ai.stack) <= ai.depth
          /\ \A i \in DOMAIN ai.stack :
                /\ ai.stack[i].depth = ai.depth - i
                /\ ai.stack[i].depth >= 0)
    /\ []((ai.pc = "loop") => \A i \in DOMAIN Work(ai) : Work(ai)[i] \in Nat)
    /\ [][ (ai.pc = "loop" /\ ai'.pc = "loop") => LexLess(Work(ai'), Work(ai)) ]_vars
    /\ [][ (ai.pc = "loop" /\ ai'.pc # "loop") => (ai'.pc = "done" /\ ai.stack = <<>>) ]_vars

\* A search in which the nesting of minimax calls is as deep as the depth of
\* the AI, 3 at least, with the innermost call at remaining depth 0.
C30_DeepestNesting ==
    /\ ai.pc = "loop"
    /\ ai.depth >= 3
    /\ Len(ai.stack) = ai.depth
    /\ ai.stack[Len(ai.stack)].depth = 0

(* ------------------------------------------------------------------ *)
(* The controller: clicks on cells, clicks on New Game, and the timers  *)
(* its async methods await                                              *)
(* ------------------------------------------------------------------ *)

\* The depth the controller constructs its AI with.
AppDepth == 4

\* How many cells of AppOrder the user may click, how many moves are on
\* the board when the user stops clicking cells, and how many suspended
\* calls there are when the user stops clicking cells.
NumAppCells == 1

MaxAppMoves == 3

MaxFlows == 2

\* The cells the user clicks: an opening move, and a cell that is legal
\* for Black both as an opening move and after the AI's answer to (2,3).
AppOrder == << Cell(2, 3), Cell(5, 4), Cell(3, 2), Cell(4, 5) >>

AppCells ==
    { AppOrder[i] : i \in 1 .. (IF NumAppCells < Len(AppOrder)
                                 THEN NumAppCells ELSE Len(AppOrder)) }

playerColor == BLACK

aiColor == WHITE

Flow(at, validMoves) == [at |-> at, validMoves |-> validMoves]

\* The sequence s without its i-th element.
Without(s, i) == SubSeq(s, 1, i - 1) \o SubSeq(s, i + 1, Len(s))

\* minimax on the game g, a call whose frame is f, run to its return: the
\* score and the number of minimax calls made below it.
RECURSIVE RunMinimax(_, _)
RunMinimax(g, f) ==
    IF FrameDone(f)
    THEN [score |-> f.best, nodes |-> 0]
    ELSE CHOOSE r \in UNION
             { { [score |-> rest.score, nodes |-> 1 + below.nodes + rest.nodes] :
                 rest \in {RunMinimax(g, FrameAccept(f, below.score))} } :
               below \in
                 { RunMinimax(child, MinimaxEntry(child, 0, f.depth - 1, f.alpha, f.beta,
                                                  ~f.isMaximizing, f.aiPlayer)) :
                   child \in {After(g, f.validMoves[f.next])} } } : TRUE

\* The for loop of getMove on the game g, from the AI's locals a to the
\* end of the loop.
RECURSIVE RunLoop(_, _)
RunLoop(g, a) ==
    IF a.next > Len(a.validMoves)
    THEN a
    ELSE CHOOSE r \in
             { RunLoop(g, [RootAccept(a, below.score) EXCEPT
                               !.nodesEvaluated = @ + 1 + below.nodes]) :
               below \in
                 { RunMinimax(child, MinimaxEntry(child, 0, a.depth - 1, 0 - Infinity,
                                                  Infinity, FALSE, WHITE)) :
                   child \in {After(g, a.validMoves[a.next])} } } : TRUE

\* aiMove once getMove has returned `move`: this.game.makeMove(move), whose
\* return value is dropped, and on to the await of the animation.
AIApply(st, move) ==
    [st EXCEPT !.game = MakeMoveResult(st.game, move.row, move.col).game,
               !.app.flows = Append(@, Flow("aiWait", <<>>))]

\* aiMove() from its first line to the first timer it awaits or to its
\* return; getMove runs to its await or, with fewer than two moves, to its
\* return.
AIMoveCall(st) ==
    IF st.game.gameOver
    THEN [st EXCEPT !.app.isProcessing = FALSE]
    ELSE LET a  == GetMoveEntry(st.ai, st.game.validMoves)
             s0 == [st EXCEPT !.ai = [AIObject(st.ai.depth) EXCEPT
                                          !.nodesEvaluated = a.nodesEvaluated]]
         IN  IF a.pc = "delay"
             THEN [s0 EXCEPT !.app.flows = Append(@, Flow("aiDelay", a.validMoves))]
             ELSE IF a.result = NoMove
             THEN [s0 EXCEPT !.app.isPlayerTurn = TRUE, !.app.isProcessing = FALSE]
             ELSE AIApply(s0, a.result)

\* The controller's makeMove after its await.
AfterMoveWait(st) ==
    IF st.game.gameOver
    THEN [st EXCEPT !.app.isProcessing = FALSE]
    ELSE IF st.game.currentPlayer = playerColor
    THEN [st EXCEPT !.app.isPlayerTurn = TRUE, !.app.isProcessing = FALSE]
    ELSE AIMoveCall([st EXCEPT !.app.isPlayerTurn = FALSE])

\* getMove after its await, with the array it read before it, and aiMove
\* from the return of getMove to the await of the animation.
AfterAIDelay(st, validMoves) ==
    CHOOSE r \in
        { AIApply([st EXCEPT !.ai = [AIObject(st.ai.depth) EXCEPT
                                         !.nodesEvaluated = a.nodesEvaluated]],
                  a.bestMove) :
          a \in {RunLoop(st.game, LoopStart([st.ai EXCEPT !.validMoves = validMoves]))} } : TRUE

\* aiMove after the await of the animation, were it to hand the turn to the
\* human without clearing isProcessing.
AfterAIWaitKeepsProcessing(st) ==
    IF st.game.gameOver
    THEN [st EXCEPT !.app.isProcessing = FALSE]
    ELSE IF st.game.currentPlayer = playerColor
    THEN [st EXCEPT !.app.isPlayerTurn = TRUE]
    ELSE AIMoveCall(st)

\* aiMove after the await of the animation.
AfterAIWait(st) ==
    IF st.game.gameOver
    THEN [st EXCEPT !.app.isProcessing = FALSE]
    ELSE IF st.game.currentPlayer = playerColor
    THEN [st EXCEPT !.app.isPlayerTurn = TRUE, !.app.isProcessing = FALSE]
    ELSE AIMoveCall(st)

AppState == [game |-> game, ai |-> ai, app |-> app]

\* new OthelloApp()
AppInit ==
    /\ game = NewGame
    /\ call = [op |-> "new", ret |-> FALSE]
    /\ heap = HeapNew(EmptyHeap, LiveGame)
    /\ ai = AIObject(AppDepth)
    /\ app = NewApp

\* A click on a cell: handleCellClick(cell.row, cell.col) and, when it
\* gets that far, makeMove(cell.row, cell.col) to its await.
CellClick(cell) ==
    /\ ~(app.isProcessing \/ ~app.isPlayerTurn)
    /\ ~game.gameOver
    /\ \E i \in DOMAIN game.validMoves : game.validMoves[i] = cell
    /\ game' = MakeMoveResult(game, cell.row, cell.col).game
    /\ app' = [app EXCEPT !.isProcessing = TRUE,
                          !.flows = Append(@, Flow("moveWait", <<>>))]
    /\ call' = [op |-> "handleCellClick", ret |-> FALSE]
    /\ UNCHANGED <<heap, ai>>

\* The click of a user who stops clicking cells after MaxAppMoves moves or
\* with MaxFlows calls suspended.
HandleCellClick(cell) ==
    /\ Len(game.moveHistory) < MaxAppMoves
    /\ Len(app.flows) < MaxFlows
    /\ CellClick(cell)

\* A click on New Game or on Play Again: newGame()
NewGameClick ==
    /\ game' = InitGame(game)
    /\ app' = [app EXCEPT !.isPlayerTurn = TRUE, !.isProcessing = FALSE]
    /\ call' = [op |-> "newGame", ret |-> FALSE]
    /\ UNCHANGED <<heap, ai>>

\* The timer that the i-th suspended call awaits fires and the call runs on
\* to its next await on a timer or to its return.
TimerDone(i) ==
    /\ i \in DOMAIN app.flows
    /\ LET flow == app.flows[i]
           st   == [AppState EXCEPT !.app.flows = Without(@, i)]
       IN  /\ \E r \in { IF flow.at = "moveWait" THEN AfterMoveWait(st)
                         ELSE IF flow.at = "aiDelay" THEN AfterAIDelay(st, flow.validMoves)
                         ELSE AfterAIWait(st) } :
                 /\ game' = r.game
                 /\ ai' = r.ai
                 /\ app' = r.app
           /\ call' = [op |-> flow.at, ret |-> FALSE]
    /\ UNCHANGED heap

AppNext ==
    \/ \E cell \in AppCells : HandleCellClick(cell)
    \/ NewGameClick
    \/ \E i \in 1 .. MaxFlows : TimerDone(i)

AppSpec == AppInit /\ [][AppNext]_vars

(* ------------------------------------------------------------------ *)
(* C23: the live game between a call of getMove and the use of its move *)
(* ------------------------------------------------------------------ *)

\* The suspended calls of getMove: aiMove awaits each of them.
PendingGetMoves == { i \in DOMAIN app.flows : app.flows[i].at = "aiDelay" }

\* C23: under every interleaving of cell clicks, New Game clicks and
\* timers, while a call of getMove is suspended at its await nothing calls
\* makeMove or reset on the live game; the first call on it is the
\* makeMove with which aiMove applies the move that this call returns.
C23_LiveGameHeldForGetMove ==
    [][ (PendingGetMoves # {} /\ (game' # game \/ call'.op = "newGame"))
            => (call'.op = "aiDelay" /\ Cardinality(PendingGetMoves) = 1) ]_vars

(* ------------------------------------------------------------------ *)
(* C31: the frame of a successful makeMove                              *)
(* ------------------------------------------------------------------ *)

\* The cells that are empty on board b and occupied on board c: after a
\* successful makeMove(row, col), the cell (row, col).
NewlyOccupied(b, c) ==
    { m \in { Cell(r, k) : r \in Idx, k \in Idx } :
        b[m.row][m.col] = EMPTY /\ c[m.row][m.col] # EMPTY }

\* C31: a successful makeMove(row,col) by player p changes exactly the cell
\* (row,col), which becomes p, and the cells of getFlippedDiscs(row,col,p)
\* computed on the board before the move, which all become p; every other
\* cell keeps its value; afterwards lastMove is (row,col) and flippedDiscs
\* is that flip set.
C31_MoveFrame ==
    [][ MoveSucceeded =>
          LET p       == game.currentPlayer
              placed  == NewlyOccupied(game.board, game'.board)
              flipped == GetFlippedDiscs(game.board, game'.lastMove.row,
                                         game'.lastMove.col, p)
          IN  /\ placed = {game'.lastMove}
              /\ game'.flippedDiscs = flipped
              /\ \A r \in Idx, c \in Idx :
                    game'.board[r][c] =
                        IF Cell(r, c) = game'.lastMove \/ Cell(r, c) \in Elems(flipped)
                        THEN p
                        ELSE game.board[r][c] ]_vars

\* A successful move has flipped discs and has left discs of the opponent
\* and discs of the mover that it did not touch.
C31_MoveLeftOtherDiscs ==
    /\ call.op = "makeMove" /\ call.ret
    /\ game.flippedDiscs # <<>>
    /\ \E r \in Idx, c \in Idx :
          /\ game.board[r][c] = WHITE
          /\ Cell(r, c) \notin Elems(game.flippedDiscs)
    /\ \E r \in Idx, c \in Idx :
          /\ game.board[r][c] = BLACK
          /\ Cell(r, c) # game.lastMove
          /\ Cell(r, c) \notin Elems(game.flippedDiscs)

(* ------------------------------------------------------------------ *)
(* C32: moveHistory is a log of the live game                           *)
(* ------------------------------------------------------------------ *)

\* The board after the first n entries of the log `history` are replayed
\* from the start position: the entry's disc is placed and the cells the
\* entry recorded are given to the entry's player.
RECURSIVE ReplayLog(_, _)
ReplayLog(history, n) ==
    IF n = 0
    THEN StartBoard
    ELSE LET e    == history[n]
             b    == ReplayLog(history, n - 1)
             own  == {Cell(e.row, e.col)} \cup Elems(e.flipped)
         IN  [r \in Idx |-> [c \in Idx |-> IF Cell(r, c) \in own THEN e.player
                                           ELSE b[r][c]]]

\* C32: moveHistory is an append-only log: a successful makeMove appends one
\* entry (the cell, the mover, the cells flipped) and changes no earlier
\* entry, a failed makeMove appends nothing, and replaying the entries in
\* order from the start position gives the current board.
C32_HistoryIsALog ==
    /\ [](ReplayLog(game.moveHistory, Len(game.moveHistory)) = game.board)
    /\ [][ MoveSucceeded =>
             game'.moveHistory =
                 Append(game.moveHistory,
                        [row |-> game'.lastMove.row, col |-> game'.lastMove.col,
                         player |-> game.currentPlayer,
                         flipped |-> game'.flippedDiscs]) ]_vars
    /\ [][ (call'.op = "makeMove" /\ ~call'.ret) =>
             game'.moveHistory = game.moveHistory ]_vars

\* A makeMove has failed on a game whose log holds moves of both players,
\* one of them with several cells flipped.
C32_FailedMoveOnLoggedGame ==
    /\ call.op = "makeMove" /\ ~call.ret
    /\ \E i, j, k \in DOMAIN game.moveHistory :
          /\ game.moveHistory[i].player = BLACK
          /\ game.moveHistory[j].player = WHITE
          /\ Len(game.moveHistory[k].flipped) >= 2

(* ------------------------------------------------------------------ *)
(* C33: an unfinished game has a legal move                             *)
(* ------------------------------------------------------------------ *)

\* C33: in every reachable state of the live game and of every clone the
\* search makes, gameOver false implies validMoves non-empty; so no call
\* of minimax stops for an empty list of moves (a call that returns at once
\* has depth 0 or a finished game), and getMove on an unfinished game does
\* not return null, which is what the controller's "AI has no valid moves"
\* branch tests.
C33_UnfinishedGameHasMoves ==
    [](/\ \A id \in DOMAIN heap.objs :
             ~Deref(heap, id).gameOver => Deref(heap, id).validMoves # <<>>
       /\ \A i \in DOMAIN ai.stack :
             ai.stack[i].leaf => (ai.stack[i].depth = 0 \/ NodeGame(i).gameOver)
       /\ (ai.pc = "done" /\ ~Live.gameOver) => ai.result # NoMove)

\* A call of minimax with depth left is on a clone in which the player due
\* to move had no legal move, and the clone holds the mover's own moves.
C33_PassResolvedInClone ==
    \E i \in DOMAIN ai.stack :
        /\ ForcedPassNode(i)
        /\ ai.stack[i].depth > 0
        /\ NodeGame(i).currentPlayer = NodeParent(i).currentPlayer
        /\ NodeGame(i).validMoves # <<>>

(* ------------------------------------------------------------------ *)
(* C34: every game ends                                                 *)
(* ------------------------------------------------------------------ *)

\* The number of discs on the board.
Discs(board) == Count(board, BLACK) + Count(board, WHITE)

\* C34: the number of discs is 4 plus the number of successful makeMove
\* calls since the last reset (a successful call adds one disc, a refused
\* call none, reset leaves four, and the log counts the successful calls);
\* makeMove never empties an occupied cell; so a game has at most 60
\* successful moves, and a full board is a finished game.
C34_GamesTerminate ==
    /\ [](/\ Discs(game.board) = 4 + Len(game.moveHistory)
          /\ Len(game.moveHistory) <= SIZE * SIZE - 4
          /\ (Count(game.board, EMPTY) = 0) => game.gameOver)
    /\ [][ call'.op = "makeMove" =>
             /\ Discs(game'.board) = Discs(game.board) + (IF call'.ret THEN 1 ELSE 0)
             /\ \A r \in Idx, c \in Idx :
                   game.board[r][c] # EMPTY => game'.board[r][c] # EMPTY ]_vars
    /\ [][ call'.op = "reset" => Discs(game'.board) = 4 ]_vars

\* The sixtieth successful move has filled the board and ended the game.
C34_SixtyMovesFilledBoard ==
    /\ call.op = "makeMove" /\ call.ret
    /\ Len(game.moveHistory) = 60
    /\ Count(game.board, EMPTY) = 0
    /\ game.gameOver

(* ------------------------------------------------------------------ *)
(* C35: getMove returns a legal move                                    *)
(* ------------------------------------------------------------------ *)

\* C35: the move getMove returns on an unfinished game is a member of that
\* game's validMoves and legal for its currentPlayer, so makeMove with it on
\* the unchanged game returns true.
C35_ReturnedMoveIsLegal ==
    []((ai.pc = "done" /\ ~Live.gameOver) =>
          /\ ai.result \in Elems(Live.validMoves)
          /\ IsValidMove(Live.board, ai.result.row, ai.result.col, Live.currentPlayer)
          /\ HeapMakeMove(heap, LiveGame, ai.result.row, ai.result.col).ret)

\* getMove has returned, after a search, the last of the legal moves of the
\* player to move on an unfinished game.
C35_ReturnedLastCandidate ==
    /\ ai.pc = "done"
    /\ ~Live.gameOver
    /\ ai.nodesEvaluated > Len(Live.validMoves)
    /\ Len(Live.validMoves) >= 2
    /\ ai.result = Live.validMoves[Len(Live.validMoves)]

(* ------------------------------------------------------------------ *)
(* C36: evaluate is zero-sum                                            *)
(* ------------------------------------------------------------------ *)

\* C36: for every state, finished or not, evaluate(state, Black) is the
\* negative of evaluate(state, White).
C36_EvaluateIsZeroSum ==
    Evaluate(game, BLACK) = 0 - Evaluate(game, WHITE)

\* An unfinished game in which White is ahead by evaluate, the two players
\* have different numbers of legal moves and a disc lies on the border.
C36_UnevenPosition ==
    /\ ~game.gameOver
    /\ Evaluate(game, WHITE) > 0
    /\ Len(FindValidMoves(game.board, BLACK)) # Len(FindValidMoves(game.board, WHITE))
    /\ \E i \in 1 .. Len(edges), j \in 1 .. SIZE :
          game.board[edges[i][j][1]][edges[i][j][2]] # EMPTY

(* ------------------------------------------------------------------ *)
(* The controller with a user who waits: a cell is clicked only when no *)
(* call is suspended; New Game is clicked at any time                   *)
(* ------------------------------------------------------------------ *)

\* How many cells of WaitOrder this user may click, and how many moves are
\* on the board when this user stops clicking cells.
NumWaitCells == 5

MaxWaitMoves == 5

\* The cells this user clicks: with the AI's answers (4,2) and (2,5), the
\* first three are a game of five moves; after (2,3), (5,1), (4,5) the AI
\* has a single legal move.
WaitOrder == << Cell(2, 3), Cell(5, 1), Cell(3, 5), Cell(4, 5), Cell(5, 4) >>

WaitCells ==
    { WaitOrder[i] : i \in 1 .. (IF NumWaitCells < Len(WaitOrder)
                                  THEN NumWaitCells ELSE Len(WaitOrder)) }

WaitingClick(cell) ==
    /\ Len(game.moveHistory) < MaxWaitMoves
    /\ app.flows = <<>>
    /\ CellClick(cell)

AppWaitNext ==
    \/ \E cell \in WaitCells : WaitingClick(cell)
    \/ NewGameClick
    \/ TimerDone(1)

AppWaitSpec == AppInit /\ [][AppWaitNext]_vars

(* ------------------------------------------------------------------ *)
(* C37: the human moves on Black's turn only                            *)
(* ------------------------------------------------------------------ *)

\* handleCellClick would go on to makeMove for a legal cell.
ClickCanBeApplied == ~app.isProcessing /\ app.isPlayerTurn /\ ~game.gameOver

\* C37: whenever a click of the human can be applied (isProcessing false,
\* isPlayerTurn true, game not over), the engine's currentPlayer is the
\* human's colour, Black.
C37_ClickOnlyOnBlacksTurn ==
    ClickCanBeApplied => game.currentPlayer = playerColor

(* ------------------------------------------------------------------ *)
(* C38: the AI moves on White's turn only                               *)
(* ------------------------------------------------------------------ *)

\* The step is a resumption in which aiMove has called this.game.makeMove:
\* the resumed call is gone and a call that awaits the animation of the
\* AI's move is the newest suspended call.
AIMoveIssued ==
    /\ call'.op \in {"moveWait", "aiDelay", "aiWait"}
    /\ Len(app'.flows) = Len(app.flows)
    /\ app'.flows # <<>>
    /\ app'.flows[Len(app'.flows)].at = "aiWait"

\* The suspended calls of aiMove.
PendingAIMoves == { i \in DOMAIN app.flows : app.flows[i].at \in {"aiDelay", "aiWait"} }

\* C38: every makeMove that aiMove issues is issued while the engine's
\* currentPlayer is the AI's colour, White, so the disc it places is White;
\* and at most one chain of aiMove calls is pending at any time.
C38_AIMovesOnWhitesTurn ==
    /\ [][ AIMoveIssued =>
             /\ game.currentPlayer = aiColor
             /\ game'.moveHistory # game.moveHistory =>
                    game'.moveHistory[Len(game'.moveHistory)].player = aiColor ]_vars
    /\ [](Cardinality(PendingAIMoves) <= 1)

(* ------------------------------------------------------------------ *)
(* C39: the controller never gets stuck                                 *)
(* ------------------------------------------------------------------ *)

\* The states the controller comes to rest in: the game is over, or a
\* click of the human can be applied, Black is to move and has a move.
Settled ==
    \/ game.gameOver
    \/ /\ ~app.isProcessing
       /\ app.isPlayerTurn
       /\ game.currentPlayer = playerColor
       /\ game.validMoves # <<>>

\* A suspended call of getMove whose array of moves is not the array of the
\* live game any more, or whose game is not at White's turn any more.
StaleGetMove(flow) ==
    \/ flow.validMoves # game.validMoves
    \/ game.gameOver
    \/ game.currentPlayer # aiColor

\* The timers a suspended call can still set going before a disc is placed
\* or the call returns: a getMove of the live position places a disc at its
\* resumption, a call that awaits an animation calls getMove at most, and a
\* stale getMove has its move refused at most and awaits the animation.
TimersLeft(flow) ==
    IF flow.at = "aiDelay" THEN (IF StaleGetMove(flow) THEN 3 ELSE 1) ELSE 2

RECURSIVE SumTimersLeft(_)
SumTimersLeft(flows) ==
    IF flows = <<>> THEN 0
    ELSE TimersLeft(Head(flows)) + SumTimersLeft(Tail(flows))

\* The work the controller has left: the empty cells of the live board,
\* and then the timers its suspended calls can still set going.
AppWork == << SIZE * SIZE - Discs(game.board), SumTimersLeft(app.flows) >>

====
